---- MODULE Spec2Model ----
(***************************************************************************)
(* A model of flt, the terminal embedder of the Flutter engine:           *)
(*   - the platform task runner (flt/src/task_runner.rs) and the engine    *)
(*     task's due test (flutter-sys/src/task.rs);                          *)
(*   - the platform event loop (flt/src/event.rs) fed by the engine        *)
(*     callbacks (flt/src/embedder.rs) and the terminal input thread       *)
(*     (flt/src/terminal_window.rs), with the terminal session of          *)
(*     TerminalWindow::new / Drop;                                         *)
(*   - the half-block renderer TerminalWindow::draw.                       *)
(* Each part has a specification of its own over the shared variables:     *)
(* TaskSpec, DrawSpec, and Spec (the event loop; FairSpec with fairness).   *)
(***************************************************************************)
EXTENDS Integers, Sequences, FiniteSets, TLC

\* ------------------------------------------------------------------ bounds
\* Engine tasks ever posted, and the largest clock value / target time.
MaxTasks == 3
MaxClock == 3
\* Events the engine callbacks and the input thread send to the event loop.
MaxEvents == 3
\* Most steps of ZOOM_FACTOR that the zoom and the scale are away from 1.0.
MaxZoom == 1
\* Most cells that the viewport is panned in each direction.
MaxPan == 1

\* ------------------------------------------------------------------ state
VARIABLES
    tasks,      \* TaskRunner.tasks: the queue, a sequence of EngineTask
    clock,      \* what FlutterEngineGetCurrentTime() returns
    next_id,    \* identity of the next EngineTask the engine creates
    ran,        \* history: ids handed to FlutterEngineRunTask, in order
    last_call,  \* history: the latest run_expired_tasks call
    \* TerminalWindow and the terminal it draws to
    term_size,     \* what terminal::size() returns: [cols, rows]
    lines,         \* TerminalWindow.lines: the cells of the last flushed frame
    semantics,     \* TerminalWindow.semantics: (x, y) -> label
    showing_help,  \* TerminalWindow.showing_help
    last_draw,     \* what the latest step drew, if it was a draw call
    frame_hist,    \* history: the last frame flushed, and what followed it
    \* TerminalEmbedder, its event loop and the terminal session
    pc,             \* where the platform thread is: "start", "init" (inside
                    \* TerminalEmbedder::new), "recv", "poll", "exited"
    config,         \* the switches: [simple_output, alternate_screen]
    terminal,       \* the terminal's modes and the commands that set them
    channel,        \* the mpsc channel: PlatformEvents sent and not received
    sent,           \* events ever sent to the channel
    handled,        \* history: the events the loop received, in order
    polls,          \* history: run_expired_tasks calls the loop has made
    should_run,     \* TerminalEmbedder.should_run
    show_semantics, \* TerminalEmbedder.show_semantics
    viewport,       \* dimensions, zoom, scale, window_offset and the drag anchor
    semantics_tree, \* FlutterSemanticsTree: [id_map, adjacency_list]
    logs,           \* TerminalWindow.logs
    exit_code,      \* the process's exit code, -1 while it runs
    last_event      \* history: the event the latest handler step handled

taskVars == <<tasks, clock, next_id, ran, last_call>>

windowVars == <<term_size, lines, semantics, showing_help, last_draw, frame_hist>>

loopVars == <<pc, config, terminal, channel, sent, handled, polls, should_run,
              show_semantics, viewport, semantics_tree, logs, exit_code,
              last_event>>

vars == <<tasks, clock, next_id, ran, last_call,
          term_size, lines, semantics, showing_help, last_draw, frame_hist,
          pc, config, terminal, channel, sent, handled, polls, should_run,
          show_semantics, viewport, semantics_tree, logs, exit_code,
          last_event>>

Range(s) == {s[i] : i \in 1..Len(s)}

\* ------------------------------------------------------------- EngineTask
\* EngineTask::new: the payload is opaque; id stands for its identity.
EngineTask(id, target_time_nanos) ==
    [id |-> id, target_time_nanos |-> target_time_nanos]

TargetTimes == 0..MaxClock

\* EngineTask::can_run_now: target_time_nanos < current_time_nanos.
can_run_now(task, current_time_nanos) ==
    task.target_time_nanos < current_time_nanos

\* ------------------------------------------------------------- TaskRunner
\* The drain loop of run_expired_tasks over the tasks still to examine.
\* fails is the set of tasks for which FlutterEngineRunTask returns an error.
\* task.run(engine)? returns at the first failed run: the Drain iterator and
\* not_run_tasks are dropped there, which leaves self.tasks empty.
RECURSIVE drain(_, _, _, _, _)
drain(rest, now, fails, not_run_tasks, run) ==
    IF rest = <<>>
    THEN [tasks |-> not_run_tasks, ran |-> run, result |-> "Ok"]
    ELSE LET task == Head(rest) IN
         IF can_run_now(task, now)
         THEN IF task.id \in fails
              THEN [tasks |-> <<>>, ran |-> Append(run, task.id), result |-> "Err"]
              ELSE drain(Tail(rest), now, fails, not_run_tasks, Append(run, task.id))
         ELSE drain(Tail(rest), now, fails, Append(not_run_tasks, task), run)

\* A runner that goes through the queue from its newest task to its oldest.
run_expired_tasks_newest_first(queue, now, fails) ==
    drain([i \in 1..Len(queue) |-> queue[Len(queue) + 1 - i]], now, fails, <<>>, <<>>)

\* TaskRunner::run_expired_tasks as a function of the queue, the clock and
\* the engine's answers: the queue left, the tasks run in order, the result.
run_expired_tasks(queue, now, fails) ==
    drain(queue, now, fails, <<>>, <<>>)

\* TaskRunner::post_task.
post_task(queue, task) ==
    Append(queue, task)

\* --------------------------------------------- TerminalWindow: half-block
\* Lines the terminal reserves for logging.
LOGGING_WINDOW_HEIGHT == 4

\* Scroll distance of one mouse wheel event.
SCROLL_DELTA == 10

\* (pixels_per_col, pixels_per_row) of the half-block renderer (not kitty).
PixelsPerCol == 1
PixelsPerRow == 2

\* Option<T>: None is the empty sequence, Some(v) the sequence holding v.
None == <<>>
Some(v) == <<v>>

Pixel(r, g, b, a) == [r |-> r, g |-> g, b |-> b, a |-> a]

\* Pixel::zero.
PixelZero == Pixel(0, 0, 0, 0)

\* to_color: Color::Rgb of the pixel; the alpha channel is dropped.
to_color(pixel) == [r |-> pixel.r, g |-> pixel.g, b |-> pixel.b]

\* TerminalWindow::size for a terminal of cols x rows characters.
size(term) ==
    <<term.cols * PixelsPerCol,
      (term.rows - LOGGING_WINDOW_HEIGHT) * PixelsPerRow>>

\* self.semantics.get(&(x, y)).cloned()
semantics_get(sem, x, y) ==
    IF <<x, y>> \in DOMAIN sem THEN Some(sem[<<x, y>>]) ELSE None

\* A crop that takes the nearest pixel of the buffer for a position outside
\* of it.
grid_for_terminal_at_clamped(pixel_grid, sem, x_offset, y_offset, x, y) ==
    LET Clamp(v, n) == IF v < 0 THEN 0 ELSE IF v >= n THEN n - 1 ELSE v
        sy == Clamp(y_offset + y, Len(pixel_grid))
        sx == IF pixel_grid = <<>> THEN 0
              ELSE Clamp(x_offset + x, Len(pixel_grid[1]))
    IN  IF pixel_grid = <<>> \/ pixel_grid[1] = <<>>
        THEN [pixel |-> PixelZero, semantics |-> None]
        ELSE [pixel |-> pixel_grid[sy + 1][sx + 1],
              semantics |-> semantics_get(sem, sx, sy)]

\* One element of grid_for_terminal: the pixel (and its label) that the
\* offset maps to terminal pixel (x, y), zero outside the buffer.
grid_for_terminal_at(pixel_grid, sem, x_offset, y_offset, x, y) ==
    LET sy == y_offset + y
        sx == x_offset + x
    IN  IF sy < 0 \/ sy >= Len(pixel_grid)
        THEN [pixel |-> PixelZero, semantics |-> None]
        ELSE IF sx < 0 \/ sx >= Len(pixel_grid[1])
             THEN [pixel |-> PixelZero, semantics |-> None]
             ELSE [pixel |-> pixel_grid[sy + 1][sx + 1],
                   semantics |-> semantics_get(sem, sx, sy)]

\* The semantic label of a cell from its top and bottom pixels' labels.
cell_semantics(top_semantics, bottom_semantics) ==
    IF top_semantics = None /\ bottom_semantics = None THEN None
    ELSE IF top_semantics = None THEN bottom_semantics
    ELSE IF bottom_semantics = None THEN top_semantics
    ELSE IF Len(top_semantics[1]) > Len(bottom_semantics[1])
         THEN top_semantics ELSE bottom_semantics

TerminalCell(top, bottom) ==
    [top |-> to_color(top.pixel), bottom |-> to_color(bottom.pixel),
     semantics |-> cell_semantics(top.semantics, bottom.semantics)]

\* A packer that fills the half below the last row of the buffer with the
\* row above it.
frame_lines_repeating_last_row(pixel_grid, sem, x_offset, y_offset, pixel_width, pixel_height) ==
    [k \in 1..(pixel_height \div 2) |->
        [c \in 1..pixel_width |->
            TerminalCell(
                grid_for_terminal_at(pixel_grid, sem, x_offset, y_offset,
                                     c - 1, 2 * (k - 1)),
                grid_for_terminal_at(pixel_grid, sem, x_offset, y_offset, c - 1,
                                     IF y_offset + 2 * (k - 1) + 1 = Len(pixel_grid)
                                     THEN 2 * (k - 1) ELSE 2 * (k - 1) + 1))]]

\* The candidate lines of a frame: two pixel rows per line of cells.
\* Line k (from 1) packs terminal pixel rows 2(k-1) and 2(k-1)+1.
frame_lines(pixel_grid, sem, x_offset, y_offset, pixel_width, pixel_height) ==
    [k \in 1..(pixel_height \div 2) |->
        [c \in 1..pixel_width |->
            TerminalCell(
                grid_for_terminal_at(pixel_grid, sem, x_offset, y_offset,
                                     c - 1, 2 * (k - 1)),
                grid_for_terminal_at(pixel_grid, sem, x_offset, y_offset,
                                     c - 1, 2 * (k - 1) + 1))]]

\* "Means that the screen dimensions has changed": the cache is replaced by
\* empty lines when its line count differs from the new frame's.
cache_for(cache, new_lines) ==
    IF Len(cache) /= Len(new_lines)
    THEN [k \in 1..Len(new_lines) |-> <<>>]
    ELSE cache

\* prev.get(x).filter(|prev_cell| prev_cell == &current_cell).is_some()
cell_unchanged(prev, x, current_cell) ==
    /\ x <= Len(prev)
    /\ prev[x] = current_cell

\* A renderer that repaints every cell of every frame.
glyph_writes_all(prev_lines, new_lines) ==
    UNION {{<<x - 1, y - 1>> : x \in 1..Len(new_lines[y])} :
           y \in 1..Len(new_lines)}

\* The cells the first pass writes a glyph to, as (column, line) from 0:
\* zip(&self.lines, &lines) pairs the lines, and each cell of the new line is
\* compared with the cached cell of its column.
glyph_writes(prev_lines, new_lines) ==
    UNION {{<<x - 1, y - 1>> : x \in
                {c \in 1..Len(new_lines[y]) :
                    ~cell_unchanged(prev_lines[y], c, new_lines[y][c])}} :
           y \in 1..Len(new_lines)}

\* The cells the second pass prints a label over.
label_writes(new_lines) ==
    UNION {{<<x - 1, y - 1>> : x \in
                {c \in 1..Len(new_lines[y]) : new_lines[y][c].semantics /= None}} :
           y \in 1..Len(new_lines)}

\* HELP_HINT = "? for help".
HELP_HINT_LEN == 10

\* hint_and_fps.len() for "{HELP_HINT} [{}]\n" when the draw took under
\* ten milliseconds: the hint, " [", one digit, "]" and the newline.
hint_and_fps_len == HELP_HINT_LEN + 5

\* A draw that stores the frame in the cache before it is flushed, so that a
\* failed frame stays cached.
draw_caches_failed_frame(cache, sem, simple, help, pixel_grid, offset, term, io_ok, overflow_checks) ==
    IF simple \/ help
    THEN [result |-> "Ok", drawn |-> FALSE, lines |-> cache, cells |-> <<>>,
          written |-> {}, labelled |-> {}]
    ELSE LET sz == size(term)
             new_lines == frame_lines(pixel_grid, sem, offset[1], offset[2],
                                      sz[1], sz[2])
             prev == cache_for(cache, new_lines)
         IN  IF sz[1] < hint_and_fps_len /\ overflow_checks
             THEN [result |-> "Panic", drawn |-> FALSE, lines |-> prev,
                   cells |-> new_lines, written |-> {}, labelled |-> {}]
             ELSE IF io_ok
             THEN [result |-> "Ok", drawn |-> TRUE, lines |-> new_lines,
                   cells |-> new_lines,
                   written |-> glyph_writes(prev, new_lines),
                   labelled |-> label_writes(new_lines)]
             ELSE [result |-> "Err", drawn |-> FALSE, lines |-> new_lines,
                   cells |-> new_lines, written |-> {}, labelled |-> {}]

\* TerminalWindow::draw of the half-block renderer (kitty_mode off) on a
\* terminal of the given size. io_ok is whether every queue/flush of the
\* frame succeeds; a failure returns before self.lines = lines, after the
\* cache was replaced by empty lines if the line count changed.
\* pixel_width - hint_and_fps.len() is an unsigned subtraction: on a terminal
\* narrower than the hint it panics in a build with overflow checks and
\* wraps in a build without them, where the draw goes on.
draw(cache, sem, simple, help, pixel_grid, offset, term, io_ok, overflow_checks) ==
    IF simple \/ help
    THEN [result |-> "Ok", drawn |-> FALSE, lines |-> cache, cells |-> <<>>,
          written |-> {}, labelled |-> {}]
    ELSE LET sz == size(term)
             new_lines == frame_lines(pixel_grid, sem, offset[1], offset[2],
                                      sz[1], sz[2])
             prev == cache_for(cache, new_lines)
         IN  IF sz[1] < hint_and_fps_len /\ overflow_checks
             THEN [result |-> "Panic", drawn |-> FALSE, lines |-> prev,
                   cells |-> new_lines, written |-> {}, labelled |-> {}]
             ELSE IF io_ok
             THEN [result |-> "Ok", drawn |-> TRUE, lines |-> new_lines,
                   cells |-> new_lines,
                   written |-> glyph_writes(prev, new_lines),
                   labelled |-> label_writes(new_lines)]
             ELSE [result |-> "Err", drawn |-> FALSE, lines |-> prev,
                   cells |-> new_lines, written |-> {}, labelled |-> {}]

\* TerminalWindow::mark_dirty: self.lines.clear().
mark_dirty(cache) == <<>>

\* HashMap::new(): no label anywhere.
EmptySemantics == [p \in {} |-> ""]

\* A toggle that flips the flag and leaves the frame cache as it is.
toggle_show_help_keeps_cache(cache, help, io) ==
    [showing_help |-> ~help,
     lines |-> cache,
     result |-> IF io = "ok" THEN "Ok" ELSE "Err"]

\* TerminalWindow::toggle_show_help: the flag flips, then Clear(All) is
\* executed (and may fail, which returns), then mark_dirty.
\* io is "ok", "fail_clear" (Clear(All) fails) or "fail_print" (a later
\* queue/flush of the help text fails, after mark_dirty).
toggle_show_help(cache, help, io) ==
    [showing_help |-> ~help,
     lines |-> IF io = "fail_clear" THEN cache ELSE mark_dirty(cache),
     result |-> IF io = "ok" THEN "Ok" ELSE "Err"]

\* TerminalWindow::update_semantics: the label positions collected into the
\* map; a later pair of the same position replaces an earlier one.
RECURSIVE update_semantics(_)
update_semantics(label_positions) ==
    IF label_positions = <<>>
    THEN EmptySemantics
    ELSE LET n == Len(label_positions)
             rest == update_semantics(SubSeq(label_positions, 1, n - 1))
             last == label_positions[n]
         IN  [p \in (DOMAIN rest) \cup {last[1]} |->
                 IF p = last[1] THEN last[2] ELSE rest[p]]

\* ------------------------------------------------- FlutterSemanticsTree
ROOT_ID == 0

\* FlutterTransformation::empty.
TransformationEmpty ==
    [scaleX |-> 1, scaleY |-> 1, transX |-> 0, transY |-> 0,
     skewX |-> 0, skewY |-> 0, pers0 |-> 0, pers1 |-> 0, pers2 |-> 1]

\* A transformation that only translates.
Translation(x, y) == [TransformationEmpty EXCEPT !.transX = x, !.transY = y]

\* FlutterTransformation::merge_with.
merge_with(self, other) ==
    [scaleX |-> self.scaleX * other.scaleX,
     scaleY |-> self.scaleY * other.scaleY,
     transX |-> self.transX + other.transX,
     transY |-> self.transY + other.transY,
     skewX |-> self.skewX * other.skewX,
     skewY |-> self.skewY * other.skewY,
     pers0 |-> self.pers0 * other.pers0,
     pers1 |-> self.pers1 * other.pers1,
     pers2 |-> self.pers2 * other.pers2]

\* FlutterSemanticsNode, with its flags reduced to whether IsHidden is set.
FlutterSemanticsNode(label, is_hidden, transform) ==
    [label |-> label, is_hidden |-> is_hidden, transform |-> transform]

SemanticsUpdate(id, children, node) ==
    [id |-> id, children |-> children, node |-> node]

\* HashMap::insert.
insert(map, key, value) ==
    [k \in (DOMAIN map) \cup {key} |-> IF k = key THEN value ELSE map[k]]

\* FlutterSemanticsTree::new.
NewSemanticsTree ==
    [id_map |-> [i \in {} |-> 0], adjacency_list |-> [i \in {} |-> 0]]

\* An update that takes each batch for a full snapshot: the tree holds the
\* batch's ids only.
semantics_tree_update_snapshot(tree, updates) ==
    LET ids == {updates[i].id : i \in 1..Len(updates)}
        last(id) == updates[CHOOSE i \in 1..Len(updates) :
                               /\ updates[i].id = id
                               /\ \A j \in (i + 1)..Len(updates) : updates[j].id /= id]
    IN  [id_map |-> [k \in ids |-> last(k).node],
         adjacency_list |-> [k \in ids |-> last(k).children]]

\* FlutterSemanticsTree::update.
RECURSIVE semantics_tree_update(_, _)
semantics_tree_update(tree, updates) ==
    IF updates = <<>>
    THEN tree
    ELSE LET u == Head(updates) IN
         semantics_tree_update(
             [id_map |-> insert(tree.id_map, u.id, u.node),
              adjacency_list |-> insert(tree.adjacency_list, u.id, u.children)],
             Tail(updates))

\* f64 as usize: a negative value saturates to 0.
as_usize(v) == IF v < 0 THEN 0 ELSE v

\* as_graph_recur followed by as_label_positions_recur for the node of one
\* id, and for a list of children. as_graph_recur unwraps the maps' entries
\* and panics at an id that has none; depth is the recursion depth still
\* allowed: a graph with a cycle recurses without end and overflows the stack.
RECURSIVE as_label_positions_recur(_, _, _, _)
RECURSIVE children_label_positions(_, _, _, _)
as_label_positions_recur(tree, parent_merged_transform, id, depth) ==
    IF id \notin DOMAIN tree.id_map
    THEN [result |-> "Panic", labels |-> <<>>]
    ELSE IF depth = 0
    THEN [result |-> "StackOverflow", labels |-> <<>>]
    ELSE LET current == tree.id_map[id]
             transform == merge_with(current.transform, parent_merged_transform)
             own == IF ~current.is_hidden /\ current.label /= ""
                    THEN << << << as_usize(transform.transX * transform.scaleX),
                                  as_usize(transform.transY * transform.scaleY) >>,
                               current.label >> >>
                    ELSE <<>>
             below == children_label_positions(tree, transform,
                                               tree.adjacency_list[id], depth - 1)
         IN  IF below.result /= "Ok"
             THEN below
             ELSE [result |-> "Ok", labels |-> own \o below.labels]

children_label_positions(tree, transform, children, depth) ==
    IF children = <<>>
    THEN [result |-> "Ok", labels |-> <<>>]
    ELSE LET first == as_label_positions_recur(tree, transform, Head(children), depth)
         IN  IF first.result /= "Ok"
             THEN first
             ELSE LET rest == children_label_positions(tree, transform,
                                                       Tail(children), depth)
                  IN  IF rest.result /= "Ok"
                      THEN rest
                      ELSE [result |-> "Ok", labels |-> first.labels \o rest.labels]

\* FlutterSemanticsTree::as_label_positions.
as_label_positions(tree) ==
    as_label_positions_recur(tree, TransformationEmpty, ROOT_ID,
                             Cardinality(DOMAIN tree.id_map) + 1)

\* --------------------------------------------- the terminal session
\* The terminal as TerminalWindow finds it.
TerminalAtStart ==
    [alternate_screen |-> FALSE, cursor_hidden |-> FALSE, raw_mode |-> FALSE,
     mouse_capture |-> FALSE, commands |-> <<>>]

\* One crossterm command (or enable_raw_mode / disable_raw_mode) applied to
\* the terminal.
execute(term, command) ==
    LET t == [term EXCEPT !.commands = Append(@, command)] IN
    CASE command = "EnterAlternateScreen" -> [t EXCEPT !.alternate_screen = TRUE]
      [] command = "LeaveAlternateScreen" -> [t EXCEPT !.alternate_screen = FALSE]
      [] command = "Hide" -> [t EXCEPT !.cursor_hidden = TRUE]
      [] command = "Show" -> [t EXCEPT !.cursor_hidden = FALSE]
      [] command = "enable_raw_mode" -> [t EXCEPT !.raw_mode = TRUE]
      [] command = "disable_raw_mode" -> [t EXCEPT !.raw_mode = FALSE]
      [] command = "EnableMouseCapture" -> [t EXCEPT !.mouse_capture = TRUE]
      [] command = "DisableMouseCapture" -> [t EXCEPT !.mouse_capture = FALSE]
      [] OTHER -> t

RECURSIVE execute_all(_, _)
execute_all(term, commands) ==
    IF commands = <<>> THEN term
    ELSE execute_all(execute(term, Head(commands)), Tail(commands))

\* TerminalWindow::new: the modes it acquires.
window_new(term, simple_output, alternate_screen) ==
    IF simple_output
    THEN term
    ELSE execute_all(term,
             (IF alternate_screen THEN <<"EnterAlternateScreen">> ELSE <<>>)
             \o <<"Hide", "enable_raw_mode", "EnableMouseCapture">>)

\* A Drop that leaves raw mode on.
window_drop_keeps_raw_mode(term, simple_output, alternate_screen) ==
    IF simple_output
    THEN term
    ELSE execute_all(term,
             <<"DisableMouseCapture", "Show">>
             \o (IF alternate_screen THEN <<"LeaveAlternateScreen">> ELSE <<>>)
             \o <<"Print">>)

\* Drop for TerminalWindow.
window_drop(term, simple_output, alternate_screen) ==
    IF simple_output
    THEN term
    ELSE execute_all(term,
             <<"DisableMouseCapture", "disable_raw_mode", "Show">>
             \o (IF alternate_screen THEN <<"LeaveAlternateScreen">> ELSE <<>>)
             \o <<"Print">>)

\* --------------------------------------------- TerminalEmbedder: events
\* A PlatformEvent in the channel. id is the position at which it was sent.
PlatformEvent(id, kind, payload) == [id |-> id, kind |-> kind, payload |-> payload]

\* crossterm's Event::Key (control is whether the modifiers are exactly
\* CONTROL) and Event::Resize.
\* The KeyModifiers that only Control makes.
CONTROL_KEY == {"CONTROL"}

KeyEvent(code, control) ==
    [type |-> "Key", code |-> code, control |-> control,
     modifiers |-> IF control THEN CONTROL_KEY ELSE {}]
ResizeEvent(columns, rows) == [type |-> "Resize", columns |-> columns, rows |-> rows]

\* crossterm's Event::Mouse; kind is "Down", "Up", "Drag", "Moved",
\* "ScrollDown" or "ScrollUp", button the button of the first three.
MouseEvent(kind, button, column, row, control) ==
    [type |-> "Mouse", kind |-> kind, button |-> button, column |-> column,
     row |-> row, control |-> control,
     modifiers |-> IF control THEN CONTROL_KEY ELSE {}]

\* The key or mouse event with the modifiers held; control is whether they
\* are Control and nothing else.
with_modifiers(event, modifiers) ==
    [event EXCEPT !.modifiers = modifiers, !.control = (modifiers = CONTROL_KEY)]

\* normalize_event_height, which the input thread applies before it sends.
normalize_event_height(event) ==
    IF event.type = "Resize"
    THEN ResizeEvent(event.columns * PixelsPerCol,
                     (event.rows - LOGGING_WINDOW_HEIGHT) * PixelsPerRow)
    ELSE IF event.type = "Mouse"
    THEN [event EXCEPT !.column = @ * PixelsPerCol, !.row = @ * PixelsPerRow]
    ELSE event

\* Sender::send.
send(chan, event) == Append(chan, event)

\* A receiver that takes the newest event first.
recv_newest(chan) ==
    [event |-> chan[Len(chan)], rest |-> SubSeq(chan, 1, Len(chan) - 1)]

\* Receiver::recv on a channel that holds an event.
recv(chan) == [event |-> Head(chan), rest |-> Tail(chan)]

\* A callback that posts the task to the runner's queue itself.
post_platform_task_callback_direct(chan, queue, id, task) ==
    [channel |-> chan, tasks |-> post_task(queue, task)]

\* post_platform_task_callback: the task is sent as an EngineTask event.
post_platform_task_callback(chan, queue, id, task) ==
    [channel |-> send(chan, PlatformEvent(id, "EngineTask", task)), tasks |-> queue]

\* A loop that does not test should_run.
while_true(flag) == TRUE

\* while self.should_run
while_should_run(flag) == flag

\* A log that keeps every message.
log_keeps_all(window_logs, message) == Append(window_logs, message)

\* TerminalWindow::log.
log(window_logs, message) ==
    Append(IF Len(window_logs) = LOGGING_WINDOW_HEIGHT
           THEN Tail(window_logs) ELSE window_logs,
           message)

\* The viewport as TerminalEmbedder::new builds it; zoom and scale are kept
\* as exponents of ZOOM_FACTOR, 0 standing for 1.0.
NewViewport ==
    [dimensions |-> <<0, 0>>, zoom |-> 0, scale |-> 0,
     window_offset |-> <<0, 0>>, prev_window_offset |-> <<0, 0>>,
     mouse_down_pos |-> <<0, 0>>]

\* The calls a handler makes on the engine, as the engine receives them.
\* A pixel ratio is kept as the exponent k of base * ZOOM_FACTOR^k.
schedule_frame == [call |-> "schedule_frame"]

send_window_metrics_event(width, height, pixel_ratio) ==
    [call |-> "send_window_metrics_event", width |-> width, height |-> height,
     pixel_ratio |-> pixel_ratio]

engine_update_semantics(enabled) == [call |-> "update_semantics", enabled |-> enabled]

send_pointer_event(phase, x, y, signal_kind, scroll_delta_y, buttons) ==
    [call |-> "send_pointer_event", phase |-> phase, x |-> x, y |-> y,
     signal_kind |-> signal_kind, scroll_delta_y |-> scroll_delta_y,
     buttons |-> buttons]

send_platform_message_response == [call |-> "send_platform_message_response"]

\* The result of a handler whose last call on the engine may fail.
Returned(self, calls, engine_ok) ==
    [self |-> self, calls |-> calls, result |-> IF engine_ok THEN "Ok" ELSE "Err"]

\* (dimension as f64 * self.zoom).round() as usize, for zoom = 1.1^k: the
\* nearest integer to dimension * 11^k / 10^k, halves away from zero.
zoomed(dimension, k) ==
    LET numerator == IF k >= 0 THEN dimension * 11^k ELSE dimension * 10^(0 - k)
        denominator == IF k >= 0 THEN 10^k ELSE 11^(0 - k)
    IN  (2 * numerator + denominator) \div (2 * denominator)

\* Window metrics of the dimensions as they are, without the zoom, at the
\* pixel ratio of the zoom alone.
window_metrics_of_dimensions(view) ==
    send_window_metrics_event(view.dimensions[1], view.dimensions[2],
                              view.zoom)

\* The window-metrics event the Draw arm of the loop sends for a viewport:
\* the zoomed dimensions at device_pixel_ratio * zoom * scale.
window_metrics(view) ==
    send_window_metrics_event(zoomed(view.dimensions[1], view.zoom),
                              zoomed(view.dimensions[2], view.zoom),
                              view.zoom + view.scale)

\* TerminalEmbedder::reset_viewport; engine_ok is whether schedule_frame
\* succeeds.
reset_viewport(self, term, engine_ok) ==
    Returned([self EXCEPT
                 !.viewport = [NewViewport EXCEPT !.dimensions = size(term)],
                 !.lines = mark_dirty(@)],
             <<schedule_frame>>, engine_ok)

\* A toggle that flips the flag and keeps the labels and the frame cache.
toggle_semantics_keeps_labels(self) ==
    [self EXCEPT !.show_semantics = ~self.show_semantics]

\* The 'z' arm of handle_control_char before its call on the engine: the flag
\* flips, and when it is now off the labels go and the cache is dirty.
toggle_semantics(self) ==
    IF self.show_semantics
    THEN [self EXCEPT !.show_semantics = FALSE,
                      !.semantics = update_semantics(<<>>),
                      !.lines = mark_dirty(@)]
    ELSE [self EXCEPT !.show_semantics = TRUE]

\* TerminalEmbedder::handle_control_char.
handle_control_char(self, code, term, engine_ok) ==
    CASE code = "c" ->
            Returned([self EXCEPT !.should_run = FALSE], <<>>, TRUE)
      [] code = "z" ->
            Returned(toggle_semantics(self),
                     <<engine_update_semantics(~self.show_semantics)>>, engine_ok)
      [] code = "r" -> reset_viewport(self, term, engine_ok)
      [] code = "5" ->
            Returned([self EXCEPT !.viewport.scale = @ + 1],
                     <<schedule_frame>>, engine_ok)
      [] code = "4" ->
            Returned([self EXCEPT !.viewport.scale = @ - 1],
                     <<schedule_frame>>, engine_ok)
      [] OTHER -> Returned(self, <<>>, TRUE)

\* A drag that moves the offset from where the last drag event left it.
drag_offset_accumulating(window_offset, prev_window_offset, mouse_down_pos, column, row) ==
    <<window_offset[1] - (column - mouse_down_pos[1]),
      window_offset[2] - (row - mouse_down_pos[2])>>

\* The window_offset of a Control+drag at (column, row): the offset at the
\* press moved against the mouse's way since the press.
drag_offset(window_offset, prev_window_offset, mouse_down_pos, column, row) ==
    <<prev_window_offset[1] - (column - mouse_down_pos[1]),
      prev_window_offset[2] - (row - mouse_down_pos[2])>>

\* handle_terminal_event for a mouse event with the Control modifier.
handle_control_mouse(self, event, engine_ok) ==
    CASE event.kind = "Down" /\ event.button = "Left" ->
            Returned([self EXCEPT
                         !.viewport.mouse_down_pos = <<event.column, event.row>>,
                         !.viewport.prev_window_offset = self.viewport.window_offset],
                     <<>>, TRUE)
      [] event.kind = "Drag" /\ event.button = "Left" ->
            Returned([self EXCEPT
                         !.viewport.window_offset =
                             drag_offset(self.viewport.window_offset,
                                         self.viewport.prev_window_offset,
                                         self.viewport.mouse_down_pos,
                                         event.column, event.row)],
                     <<schedule_frame>>, engine_ok)
      [] event.kind = "ScrollUp" ->
            Returned([self EXCEPT !.viewport.zoom = @ + 1],
                     <<schedule_frame>>, engine_ok)
      [] event.kind = "ScrollDown" ->
            Returned([self EXCEPT !.viewport.zoom = @ - 1],
                     <<schedule_frame>>, engine_ok)
      [] OTHER -> Returned(self, <<>>, TRUE)

\* The position of the mouse itself, whatever the pan.
pointer_position_unpanned(window_offset, column, row) == <<column, row>>

\* The (column, row) of a pointer event: the position of the mouse moved by
\* the pan of the viewport.
pointer_position(window_offset, column, row) ==
    <<column + window_offset[1], row + window_offset[2]>>

\* handle_terminal_event for a mouse event without the Control modifier: the
\* event goes to the engine as a pointer event at the panned position.
handle_plain_mouse(self, event, engine_ok) ==
    LET at == pointer_position(self.viewport.window_offset, event.column, event.row)
        column == at[1]
        row == at[2]
    IN  CASE event.kind = "Down" ->
                Returned(self, <<send_pointer_event("Down", column, row, "None",
                                                    0, <<event.button>>)>>, engine_ok)
          [] event.kind = "Up" ->
                Returned(self, <<send_pointer_event("Up", column, row, "None",
                                                    0, <<event.button>>)>>, engine_ok)
          [] event.kind = "Drag" -> Returned(self, <<>>, TRUE)
          [] event.kind = "Moved" ->
                Returned(self, <<send_pointer_event("Hover", column, row, "None",
                                                    0, <<>>)>>, engine_ok)
          [] event.kind = "ScrollUp" ->
                Returned(self, <<send_pointer_event("Up", column, row, "Scroll",
                                                    0 - SCROLL_DELTA, <<>>)>>, engine_ok)
          [] event.kind = "ScrollDown" ->
                Returned(self, <<send_pointer_event("Down", column, row, "Scroll",
                                                    SCROLL_DELTA, <<>>)>>, engine_ok)

\* A resize handler that takes the size and keeps the frame cache.
on_resize_keeps_cache(self, columns, rows) ==
    [self EXCEPT !.viewport.dimensions = <<columns, rows>>]

\* The Resize arm of handle_terminal_event, before its schedule_frame.
on_resize(self, columns, rows) ==
    [self EXCEPT !.viewport.dimensions = <<columns, rows>>,
                 !.lines = mark_dirty(@)]

\* TerminalEmbedder::handle_terminal_event for key, mouse and resize events.
handle_terminal_event(self, event, term, outcome) ==
    CASE event.type = "Key" /\ event.modifiers = CONTROL_KEY ->
            handle_control_char(self, event.code, term, outcome /= "engine_fails")
      [] event.type = "Key" /\ event.modifiers /= CONTROL_KEY /\ event.code = "?" ->
            LET t == toggle_show_help(self.lines, self.showing_help,
                         CASE outcome = "io_fails" -> "fail_clear"
                           [] outcome = "io_fails_late" -> "fail_print"
                           [] OTHER -> "ok")
            IN  [self |-> [self EXCEPT !.showing_help = t.showing_help,
                                       !.lines = t.lines],
                 calls |-> <<>>,
                 result |-> t.result]
      [] event.type = "Mouse" /\ event.modifiers = CONTROL_KEY ->
            handle_control_mouse(self, event, outcome /= "engine_fails")
      [] event.type = "Mouse" /\ event.modifiers /= CONTROL_KEY ->
            handle_plain_mouse(self, event, outcome /= "engine_fails")
      [] event.type = "Resize" ->
            Returned(on_resize(self, event.columns, event.rows),
                     <<schedule_frame>>, outcome /= "engine_fails")
      [] OTHER -> Returned(self, <<>>, TRUE)

\* The body of the match of run_event_loop for one received event. outcome
\* is what the engine and the terminal do with the calls the handler makes:
\* "ok", "engine_fails" (the engine call returns an error), "io_fails" and
\* "io_fails_late" (a terminal write fails), "overflow_checked" (the build
\* checks arithmetic overflow).
handle_event(self, event, term, simple_output, outcome) ==
    CASE event.kind = "UpdateSemantics" ->
            LET tree == semantics_tree_update(self.semantics_tree, event.payload)
                positions == as_label_positions(tree)
            IN  IF positions.result /= "Ok"
                THEN [self |-> [self EXCEPT !.semantics_tree = tree],
                      calls |-> <<>>,
                      result |-> positions.result]
                ELSE [self |-> [self EXCEPT
                                   !.semantics_tree = tree,
                                   !.semantics = update_semantics(positions.labels)],
                      calls |-> <<>>,
                      result |-> "Ok"]
      [] event.kind = "Draw" ->
            LET metrics == window_metrics(self.viewport)
            IN  IF outcome = "engine_fails"
                THEN Returned(self, <<metrics>>, FALSE)
                ELSE LET d == draw(self.lines, self.semantics, simple_output,
                                   self.showing_help, event.payload,
                                   self.viewport.window_offset, term,
                                   outcome /= "io_fails",
                                   outcome = "overflow_checked")
                     IN  [self |-> [self EXCEPT !.lines = d.lines],
                          calls |-> <<metrics>>,
                          result |-> d.result]
      [] event.kind = "EngineTask" ->
            Returned([self EXCEPT !.tasks = post_task(@, event.payload)], <<>>, TRUE)
      [] event.kind = "LogMessage" ->
            Returned([self EXCEPT !.logs = log(@, event.payload)], <<>>, TRUE)
      [] event.kind = "PlatformMessage" ->
            IF event.payload.text_input
            THEN Returned(self, <<>>, TRUE)
            ELSE Returned(self, <<send_platform_message_response>>,
                          outcome /= "engine_fails")
      [] event.kind = "TerminalEvent" ->
            handle_terminal_event(self, event.payload, term, outcome)

\* The outcomes that the calls of an event's handler can have.
Outcomes(self, event, simple_output) ==
    CASE event.kind = "Draw" ->
            IF simple_output \/ self.showing_help
            THEN {"ok", "engine_fails"}
            ELSE {"ok", "engine_fails", "io_fails", "overflow_checked"}
      [] event.kind = "PlatformMessage" ->
            IF event.payload.text_input THEN {"ok"} ELSE {"ok", "engine_fails"}
      [] event.kind = "TerminalEvent" ->
            CASE event.payload.type = "Resize" -> {"ok", "engine_fails"}
              [] event.payload.type = "Mouse" ->
                    IF handle_terminal_event(self, event.payload, <<>>, "ok").calls = <<>>
                    THEN {"ok"} ELSE {"ok", "engine_fails"}
              [] event.payload.code = "c" -> {"ok"}
              [] event.payload.code = "?" ->
                    IF self.showing_help
                    THEN {"ok", "io_fails"}
                    ELSE {"ok", "io_fails", "io_fails_late"}
              [] OTHER -> {"ok", "engine_fails"}
      [] OTHER -> {"ok"}

NoCall ==
    [made |-> FALSE, before |-> <<>>, now |-> 0, ran |-> <<>>,
     after |-> <<>>, result |-> "Ok"]

\* ------------------------------------------------------ history defaults
NoDraw ==
    [made |-> FALSE, tick |-> 0, result |-> "Ok", drawn |-> FALSE,
     written |-> {}, labelled |-> {},
     prev |-> [have |-> FALSE, dirty |-> FALSE, resized |-> FALSE]]

NoFrame == [have |-> FALSE, cells |-> <<>>, dirty |-> FALSE, resized |-> FALSE]

NoEvent ==
    [made |-> FALSE, tick |-> 0, event |-> <<>>, result |-> "Ok", calls |-> <<>>]

\* The window's variables where a specification leaves the window out.
WindowIdle ==
    /\ term_size = [cols |-> 1, rows |-> LOGGING_WINDOW_HEIGHT + 1]
    /\ lines = <<>>
    /\ semantics = EmptySemantics
    /\ showing_help = FALSE
    /\ last_draw = NoDraw
    /\ frame_hist = NoFrame

\* The event loop's variables where a specification leaves the loop out.
LoopIdle ==
    /\ pc = "start"
    /\ config = [simple_output |-> FALSE, alternate_screen |-> TRUE]
    /\ terminal = TerminalAtStart
    /\ channel = <<>>
    /\ sent = 0
    /\ handled = <<>>
    /\ polls = 0
    /\ should_run = TRUE
    /\ show_semantics = FALSE
    /\ viewport = NewViewport
    /\ semantics_tree = NewSemanticsTree
    /\ logs = <<>>
    /\ exit_code = -1
    /\ last_event = NoEvent

\* The task runner's variables where a specification leaves it out.
TaskIdle ==
    /\ tasks = <<>>
    /\ clock = 0
    /\ next_id = 1
    /\ ran = <<>>
    /\ last_call = NoCall

\* ---------------------------------------------- TaskSpec: the task runner
TaskInit ==
    /\ tasks = <<>>
    /\ clock = 0
    /\ next_id = 1
    /\ ran = <<>>
    /\ last_call = NoCall
    /\ WindowIdle
    /\ LoopIdle

\* post_task with a task the engine has just created.
PostTask ==
    \E target \in TargetTimes :
        /\ next_id <= MaxTasks
        /\ tasks' = post_task(tasks, EngineTask(next_id, target))
        /\ next_id' = next_id + 1
        /\ UNCHANGED <<clock, ran, last_call>>
        /\ UNCHANGED <<windowVars, loopVars>>

\* One run_expired_tasks call; the engine decides which runs fail.
RunExpired ==
    \E fails \in SUBSET {tasks[i].id : i \in 1..Len(tasks)} :
        LET r == run_expired_tasks(tasks, clock, fails) IN
        /\ tasks' = r.tasks
        /\ ran' = ran \o r.ran
        /\ last_call' = [made |-> TRUE, before |-> tasks, now |-> clock,
                         ran |-> r.ran, after |-> r.tasks, result |-> r.result]
        /\ UNCHANGED <<clock, next_id>>
        /\ UNCHANGED <<windowVars, loopVars>>

\* The engine clock advances.
Tick ==
    /\ clock < MaxClock
    /\ clock' = clock + 1
    /\ UNCHANGED <<tasks, next_id, ran, last_call>>
    /\ UNCHANGED <<windowVars, loopVars>>

TaskNext ==
    \/ PostTask
    \/ RunExpired
    \/ Tick

TaskSpec == TaskInit /\ [][TaskNext]_vars

\* ------------------------------------------- DrawSpec: the half-block renderer
\* The renderer's inputs. Terminals of 2 x 1, 1 x 1 and 2 x 2 cells above the
\* logging window.
TermSizes ==
    {[cols |-> 2, rows |-> LOGGING_WINDOW_HEIGHT + 1],
     [cols |-> 1, rows |-> LOGGING_WINDOW_HEIGHT + 1],
     [cols |-> 2, rows |-> LOGGING_WINDOW_HEIGHT + 2]}

PixelBlack == Pixel(0, 0, 0, 255)
PixelWhite == Pixel(255, 255, 255, 255)

\* The engine's pixel buffers: the empty buffer of the first Draw event,
\* every one-pixel-wide column of two zero or white pixels, the 2 x 2 white
\* grid, and the 2 x 2 grid of opaque black pixels, which differs from zero
\* pixels in alpha only.
Buffers ==
    {<<>>}
    \cup {<<<<top>>, <<bottom>>>> : top, bottom \in {PixelZero, PixelWhite}}
    \cup {[y \in 1..2 |-> [x \in 1..2 |-> p]] : p \in {PixelWhite, PixelBlack}}

\* Pan offsets: none, one pixel to the left, one pixel up.
Offsets == {<<0, 0>>, <<-1, 0>>, <<0, -1>>}

\* Label positions handed to update_semantics.
LabelPositions ==
    {<<>>, <<<< <<0, 0>>, "a" >>, << <<0, 1>>, "bb" >>>>}

WindowInit ==
    /\ term_size \in TermSizes
    /\ lines = <<>>
    /\ semantics = EmptySemantics
    /\ showing_help = FALSE
    /\ last_draw = NoDraw
    /\ frame_hist = NoFrame

DrawInit ==
    /\ WindowInit
    /\ TaskIdle
    /\ LoopIdle

\* The window is gone once a draw has panicked.
WindowAlive == last_draw.result /= "Panic"

\* The record of a draw call and the frame history after it. tick flips at
\* every call, so that a call that changes nothing else is still a step.
DrawEffect(d) ==
    /\ lines' = d.lines
    /\ last_draw' = [made |-> TRUE, tick |-> 1 - last_draw.tick,
                     result |-> d.result, drawn |-> d.drawn,
                     written |-> d.written, labelled |-> d.labelled,
                     prev |-> [have |-> frame_hist.have,
                               dirty |-> frame_hist.dirty,
                               resized |-> frame_hist.resized]]
    /\ frame_hist' = IF d.drawn
                     THEN [have |-> TRUE, cells |-> d.cells,
                           dirty |-> FALSE, resized |-> FALSE]
                     ELSE frame_hist

\* TerminalWindow::draw with a buffer of the engine and the viewport offset.
DrawFrame ==
    \E pixel_grid \in Buffers, offset \in Offsets,
       outcome \in {"ok", "io_fails", "overflow_checked"} :
        /\ WindowAlive
        /\ DrawEffect(draw(lines, semantics, FALSE, showing_help, pixel_grid,
                           offset, term_size, outcome /= "io_fails",
                           outcome = "overflow_checked"))
        /\ UNCHANGED <<term_size, semantics, showing_help>>
        /\ UNCHANGED <<taskVars, loopVars>>

\* The user resizes the terminal.
TerminalResized ==
    \E new_size \in TermSizes \ {term_size} :
        /\ WindowAlive
        /\ term_size' = new_size
        /\ frame_hist' = [frame_hist EXCEPT !.resized = TRUE]
        /\ last_draw' = NoDraw
        /\ UNCHANGED <<lines, semantics, showing_help>>
        /\ UNCHANGED <<taskVars, loopVars>>

\* TerminalWindow::mark_dirty, as its callers invoke it.
MarkDirty ==
    /\ WindowAlive
    /\ lines' = mark_dirty(lines)
    /\ frame_hist' = [frame_hist EXCEPT !.dirty = TRUE]
    /\ last_draw' = NoDraw
    /\ UNCHANGED <<term_size, semantics, showing_help>>
    /\ UNCHANGED <<taskVars, loopVars>>

\* TerminalWindow::update_semantics.
UpdateLabels ==
    \E label_positions \in LabelPositions :
        /\ WindowAlive
        /\ semantics' = update_semantics(label_positions)
        /\ last_draw' = NoDraw
        /\ UNCHANGED <<term_size, lines, showing_help, frame_hist>>
        /\ UNCHANGED <<taskVars, loopVars>>

\* TerminalWindow::toggle_show_help.
ToggleShowHelp ==
    \E io \in {"ok", "fail_clear", "fail_print"} :
        /\ WindowAlive
        /\ io = "fail_print" => ~showing_help
        /\ LET t == toggle_show_help(lines, showing_help, io) IN
            /\ showing_help' = t.showing_help
            /\ lines' = t.lines
            /\ frame_hist' = [frame_hist EXCEPT
                                 !.dirty = @ \/ io /= "fail_clear"]
        /\ last_draw' = NoDraw
        /\ UNCHANGED <<term_size, semantics>>
        /\ UNCHANGED <<taskVars, loopVars>>

DrawNext ==
    \/ DrawFrame
    \/ TerminalResized
    \/ MarkDirty
    \/ UpdateLabels
    \/ ToggleShowHelp

DrawSpec == DrawInit /\ [][DrawNext]_vars

-----------------------------------------------------------------------------
\* The half-block packer by itself: frames of every size drawn at every pan
\* on terminals of several sizes.

\* A buffer of width x height pixels, each pixel telling its place.
PackBuffer(width, height) ==
    [y \in 1..height |-> [x \in 1..width |-> Pixel(x, y, 0, 255)]]

\* The buffers of the engine: none, odd and even heights, narrower and wider
\* than the terminal.
PackBuffers ==
    {PackBuffer(wh[1], wh[2]) :
        wh \in {<<0, 0>>, <<1, 1>>, <<2, 2>>, <<2, 3>>, <<3, 1>>}}

\* The pans of the viewport, to either side in both coordinates.
PackOffsets == (-1..1) \X (-1..2)

\* Terminals narrower and wider than the help hint.
PackSizes ==
    {[cols |-> 1, rows |-> LOGGING_WINDOW_HEIGHT + 1],
     [cols |-> 2, rows |-> LOGGING_WINDOW_HEIGHT + 2],
     [cols |-> hint_and_fps_len, rows |-> LOGGING_WINDOW_HEIGHT + 1]}

PackInit ==
    /\ term_size \in PackSizes
    /\ lines = <<>>
    /\ semantics = EmptySemantics
    /\ showing_help = FALSE
    /\ last_draw = [NoDraw EXCEPT !.result = "None"]
    /\ frame_hist = NoFrame
    /\ TaskIdle
    /\ LoopIdle

\* TerminalWindow::draw of a buffer at a pan, every write of which succeeds;
\* last_draw keeps what was drawn.
Pack ==
    \E pixel_grid \in PackBuffers, offset \in PackOffsets,
       outcome \in {"ok", "overflow_checked"} :
        LET d == draw(lines, semantics, FALSE, showing_help, pixel_grid, offset,
                      term_size, TRUE, outcome = "overflow_checked")
        IN  /\ WindowAlive
            /\ lines' = d.lines
            /\ last_draw' = [made |-> TRUE, tick |-> 1 - last_draw.tick,
                             pixel_grid |-> pixel_grid, offset |-> offset,
                             outcome |-> outcome, cells |-> d.cells,
                             result |-> d.result]
            /\ UNCHANGED <<term_size, semantics, showing_help, frame_hist>>
            /\ UNCHANGED <<taskVars, loopVars>>

PackSpec == PackInit /\ [][Pack]_vars

\* ----------------------------------------------- Spec: the event loop
\* Target times of the tasks the engine posts while the loop runs.
LoopTargetTimes == {0, 1}

\* Buffers of the engine's draw callback.
LoopBuffers ==
    {[y \in 1..2 |-> [x \in 1..2 |-> PixelWhite]], <<<<PixelWhite>>, <<PixelZero>>>>}

\* Batches of the engine's update-semantics callback: a labelled root, a root
\* with a labelled child, and a root whose child the engine has not sent.
SemanticsUpdates ==
    {<<SemanticsUpdate(ROOT_ID, <<>>,
                       FlutterSemanticsNode("a", FALSE, TransformationEmpty))>>,
     <<SemanticsUpdate(ROOT_ID, <<1>>,
                       FlutterSemanticsNode("", FALSE, TransformationEmpty)),
       SemanticsUpdate(1, <<>>,
                       FlutterSemanticsNode("bb", FALSE, Translation(0, 1)))>>,
     <<SemanticsUpdate(ROOT_ID, <<2>>,
                       FlutterSemanticsNode("a", FALSE, TransformationEmpty))>>}

\* Keys the user presses: Ctrl+c, Ctrl+z, Ctrl+r and a plain "?".
Keys ==
    {KeyEvent("c", TRUE), KeyEvent("z", TRUE), KeyEvent("r", TRUE),
     KeyEvent("?", FALSE)}

Configs == [simple_output : BOOLEAN, alternate_screen : BOOLEAN]

\* The engine exists, so its callbacks can fire.
EngineRunning == pc \in {"recv", "poll"}

\* The input thread runs from TerminalWindow::new until its send fails.
InputRunning == pc \in {"init", "recv", "poll"}

LoopInit ==
    /\ pc = "start"
    /\ config \in Configs
    /\ terminal = TerminalAtStart
    /\ channel = <<>>
    /\ sent = 0
    /\ handled = <<>>
    /\ polls = 0
    /\ should_run = TRUE
    /\ show_semantics = FALSE
    /\ viewport = NewViewport
    /\ semantics_tree = NewSemanticsTree
    /\ logs = <<>>
    /\ exit_code = -1
    /\ last_event = NoEvent
    /\ TaskIdle
    /\ term_size = [cols |-> 2, rows |-> LOGGING_WINDOW_HEIGHT + 1]
    /\ lines = <<>>
    /\ semantics = EmptySemantics
    /\ showing_help = FALSE
    /\ last_draw = NoDraw
    /\ frame_hist = NoFrame

\* The process ends: the TerminalWindow is dropped on the way out.
Exit(code) ==
    /\ pc' = "exited"
    /\ exit_code' = code
    /\ terminal' = window_drop(terminal, config.simple_output,
                               config.alternate_screen)

\* The process is aborted by a stack overflow: nothing is unwound, so the
\* TerminalWindow is not dropped.
Abort ==
    /\ pc' = "exited"
    /\ exit_code' = 134
    /\ terminal' = terminal

\* TerminalEmbedder::new up to TerminalWindow::new, which acquires the
\* terminal and spawns the input thread.
NewWindow ==
    /\ pc = "start"
    /\ pc' = "init"
    /\ terminal' = window_new(terminal, config.simple_output,
                              config.alternate_screen)
    /\ UNCHANGED <<config, channel, sent, handled, polls, should_run,
                   show_semantics, viewport, semantics_tree, logs, exit_code,
                   last_event>>
    /\ UNCHANGED <<taskVars, windowVars>>

\* The rest of TerminalEmbedder::new: FlutterEngine::new,
\* notify_display_update, reset_viewport and the first Draw event. An error
\* of any of the three engine calls returns from new and from main.
NewEngine ==
    /\ pc = "init"
    /\ \E outcome \in {"ok", "engine_new_fails", "notify_display_update_fails",
                       "schedule_frame_fails"} :
        IF outcome = "ok"
        THEN /\ viewport' = [NewViewport EXCEPT !.dimensions = size(term_size)]
             /\ lines' = mark_dirty(lines)
             /\ channel' = send(channel, PlatformEvent(sent + 1, "Draw", <<>>))
             /\ sent' = sent + 1
             /\ pc' = "recv"
             /\ UNCHANGED <<terminal, exit_code>>
        ELSE /\ Exit(1)
             /\ UNCHANGED <<viewport, lines, channel, sent>>
    /\ UNCHANGED <<config, handled, polls, should_run, show_semantics,
                   semantics_tree, logs, last_event>>
    /\ UNCHANGED <<taskVars, term_size, semantics, showing_help, last_draw,
                   frame_hist>>

\* What a step of an engine thread or of the input thread leaves alone when
\* all it does is send.
SendOnly ==
    /\ UNCHANGED <<pc, config, terminal, handled, polls, should_run,
                   show_semantics, viewport, semantics_tree, logs, exit_code,
                   last_event>>
    /\ UNCHANGED <<clock, ran, last_call>>
    /\ UNCHANGED <<lines, semantics, showing_help, last_draw, frame_hist>>

\* An engine thread calls post_platform_task_callback.
EnginePostTask ==
    \E target \in LoopTargetTimes :
        /\ EngineRunning /\ sent < MaxEvents /\ next_id <= MaxTasks
        /\ LET r == post_platform_task_callback(channel, tasks, sent + 1,
                                                EngineTask(next_id, target))
           IN  channel' = r.channel /\ tasks' = r.tasks
        /\ sent' = sent + 1
        /\ next_id' = next_id + 1
        /\ UNCHANGED term_size
        /\ SendOnly

\* An engine thread calls the software draw callback.
EngineDraw ==
    \E pixel_grid \in LoopBuffers :
        /\ EngineRunning /\ sent < MaxEvents
        /\ channel' = send(channel, PlatformEvent(sent + 1, "Draw", pixel_grid))
        /\ sent' = sent + 1
        /\ UNCHANGED <<tasks, next_id, term_size>>
        /\ SendOnly

\* An engine thread calls update_semantics_callback.
EngineUpdateSemantics ==
    \E updates \in SemanticsUpdates :
        /\ EngineRunning /\ sent < MaxEvents
        /\ channel' = send(channel,
                           PlatformEvent(sent + 1, "UpdateSemantics", updates))
        /\ sent' = sent + 1
        /\ UNCHANGED <<tasks, next_id, term_size>>
        /\ SendOnly

\* An engine thread calls log_message_callback.
EngineLogMessage ==
    /\ EngineRunning /\ sent < MaxEvents
    /\ channel' = send(channel, PlatformEvent(sent + 1, "LogMessage", "tag: message"))
    /\ sent' = sent + 1
    /\ UNCHANGED <<tasks, next_id, term_size>>
    /\ SendOnly

\* An engine thread calls platform_message_callback, with a message of the
\* text input channel or of another channel.
EnginePlatformMessage ==
    \E text_input \in BOOLEAN :
        /\ EngineRunning /\ sent < MaxEvents
        /\ channel' = send(channel,
                           PlatformEvent(sent + 1, "PlatformMessage",
                                         [text_input |-> text_input]))
        /\ sent' = sent + 1
        /\ UNCHANGED <<tasks, next_id, term_size>>
        /\ SendOnly

\* The input thread reads a key event and sends it.
InputKey ==
    \E key \in Keys :
        /\ InputRunning /\ sent < MaxEvents
        /\ channel' = send(channel,
                           PlatformEvent(sent + 1, "TerminalEvent",
                                         normalize_event_height(key)))
        /\ sent' = sent + 1
        /\ UNCHANGED <<tasks, next_id, term_size>>
        /\ SendOnly

\* The user resizes the terminal; the input thread reads the resize event
\* and sends it.
InputResize ==
    \E new_size \in TermSizes \ {term_size} :
        /\ InputRunning /\ sent < MaxEvents
        /\ term_size' = new_size
        /\ channel' = send(channel,
                           PlatformEvent(sent + 1, "TerminalEvent",
                               normalize_event_height(
                                   ResizeEvent(new_size.cols, new_size.rows))))
        /\ sent' = sent + 1
        /\ UNCHANGED <<tasks, next_id>>
        /\ SendOnly

\* The fields of the embedder and of its window that a handler works on.
Embedder ==
    [semantics_tree |-> semantics_tree, semantics |-> semantics,
     lines |-> lines, showing_help |-> showing_help, logs |-> logs,
     tasks |-> tasks, should_run |-> should_run,
     show_semantics |-> show_semantics, viewport |-> viewport]

\* One iteration of run_event_loop up to the end of the match: recv returns
\* the next event and its handler runs. An error of the handler returns from
\* run_event_loop, a panic unwinds; both skip the iteration's poll.
HandleEvent ==
    /\ pc = "recv"
    /\ channel /= <<>>
    /\ LET r == recv(channel) IN
        /\ channel' = r.rest
        /\ handled' = Append(handled, [id |-> r.event.id, kind |-> r.event.kind,
                                       payload |-> r.event.payload])
        /\ \E outcome \in Outcomes(Embedder, r.event, config.simple_output) :
            LET h == handle_event(Embedder, r.event, term_size,
                                  config.simple_output, outcome)
            IN  /\ semantics_tree' = h.self.semantics_tree
                /\ semantics' = h.self.semantics
                /\ lines' = h.self.lines
                /\ showing_help' = h.self.showing_help
                /\ logs' = h.self.logs
                /\ tasks' = h.self.tasks
                /\ should_run' = h.self.should_run
                /\ show_semantics' = h.self.show_semantics
                /\ viewport' = h.self.viewport
                /\ CASE h.result = "Ok" ->
                            pc' = "poll" /\ UNCHANGED <<terminal, exit_code>>
                     [] h.result = "Err" -> Exit(1)
                     [] h.result = "Panic" -> Exit(101)
                     [] h.result = "StackOverflow" -> Abort
    /\ UNCHANGED <<config, sent, polls, last_event>>
    /\ UNCHANGED <<clock, next_id, ran, last_call>>
    /\ UNCHANGED <<term_size, last_draw, frame_hist>>

\* The end of an iteration: run_expired_tasks, whose error returns from
\* run_event_loop, and then the test of the while condition. The engine
\* decides which runs fail.
Poll ==
    /\ pc = "poll"
    /\ \E fails \in SUBSET {tasks[i].id : i \in 1..Len(tasks)} :
        LET r == run_expired_tasks(tasks, clock, fails) IN
        /\ fails \subseteq Range(r.ran)
        /\ tasks' = r.tasks
        /\ ran' = ran \o r.ran
        /\ polls' = polls + 1
        /\ last_call' = [made |-> TRUE, before |-> tasks, now |-> clock,
                         ran |-> r.ran, after |-> r.tasks, result |-> r.result]
        /\ IF r.result = "Err"
           THEN Exit(1)
           ELSE IF while_should_run(should_run)
           THEN pc' = "recv" /\ UNCHANGED <<terminal, exit_code>>
           ELSE Exit(0)
    /\ UNCHANGED <<config, channel, sent, handled, should_run, show_semantics,
                   viewport, semantics_tree, logs, last_event>>
    /\ UNCHANGED <<clock, next_id>>
    /\ UNCHANGED windowVars

\* The steps of the platform thread.
PlatformStep == NewWindow \/ NewEngine \/ HandleEvent \/ Poll

Next ==
    \/ NewWindow
    \/ NewEngine
    \/ EnginePostTask
    \/ EngineDraw
    \/ EngineUpdateSemantics
    \/ EngineLogMessage
    \/ EnginePlatformMessage
    \/ InputKey
    \/ InputResize
    \/ Tick
    \/ HandleEvent
    \/ Poll

Spec == LoopInit /\ [][Next]_vars

\* A turn of the platform thread inside run_event_loop: with an event in the
\* channel recv returns and the handler runs (HandleEvent, the only step that
\* moves pc from "recv"); after the handler the poll runs (Poll, the only
\* step that moves pc from "poll").
LoopTurn ==
    \/ pc = "recv" /\ channel /= <<>> /\ pc' \in {"poll", "exited"}
    \/ pc = "poll" /\ pc' \in {"recv", "exited"}

\* The platform thread is scheduled: when it can take a turn of the loop, it
\* does. Nothing is assumed of the engine, the user or the clock.
FairSpec == Spec /\ WF_pc(LoopTurn)

\* ------------------------------- the handlers of the loop, one at a time
\* The embedder as run_event_loop finds it: TerminalEmbedder::new has
\* acquired the terminal and reset the viewport.
EmbedderReady ==
    /\ pc = "recv"
    /\ config = [simple_output |-> FALSE, alternate_screen |-> TRUE]
    /\ terminal = window_new(TerminalAtStart, FALSE, TRUE)
    /\ channel = <<>>
    /\ sent = 0
    /\ handled = <<>>
    /\ polls = 0
    /\ should_run = TRUE
    /\ show_semantics = FALSE
    /\ viewport = [NewViewport EXCEPT !.dimensions = size(term_size)]
    /\ semantics_tree = NewSemanticsTree
    /\ logs = <<>>
    /\ exit_code = -1
    /\ last_event = NoEvent

\* One iteration of run_event_loop for an event that recv has just returned:
\* the arm of the match runs on the embedder. No task is queued, so the
\* iteration's run_expired_tasks call does nothing.
Handle(event) ==
    /\ pc = "recv"
    /\ \E outcome \in Outcomes(Embedder, event, config.simple_output) :
        LET h == handle_event(Embedder, event, term_size,
                              config.simple_output, outcome)
        IN  /\ semantics_tree' = h.self.semantics_tree
            /\ semantics' = h.self.semantics
            /\ lines' = h.self.lines
            /\ showing_help' = h.self.showing_help
            /\ logs' = h.self.logs
            /\ tasks' = h.self.tasks
            /\ should_run' = h.self.should_run
            /\ show_semantics' = h.self.show_semantics
            /\ viewport' = h.self.viewport
            /\ last_event' = [made |-> TRUE, tick |-> 1 - last_event.tick,
                              event |-> event, result |-> h.result,
                              calls |-> h.calls]
            /\ CASE h.result = "Ok" ->
                        IF while_should_run(h.self.should_run)
                        THEN UNCHANGED <<pc, terminal, exit_code>>
                        ELSE Exit(0)
                 [] h.result = "Err" -> Exit(1)
                 [] h.result = "Panic" -> Exit(101)
                 [] h.result = "StackOverflow" -> Abort
    /\ UNCHANGED <<config, channel, sent, handled, polls>>
    /\ UNCHANGED <<clock, next_id, ran, last_call>>
    /\ UNCHANGED <<last_draw, frame_hist>>

\* ------------------------------------------ TreeSpec: the semantics tree
NodeA == FlutterSemanticsNode("a", FALSE, Translation(1, 0))
NodeB == FlutterSemanticsNode("bb", FALSE, Translation(0, 1))
NodeHidden == FlutterSemanticsNode("h", TRUE, Translation(1, 1))
NodeContainer == FlutterSemanticsNode("", FALSE, Translation(1, 1))
NodeLeft == FlutterSemanticsNode("n", FALSE, Translation(-2, 0))
NodeScaled ==
    FlutterSemanticsNode("s", FALSE,
                         [TransformationEmpty EXCEPT !.scaleX = 2, !.transX = 1])
\* A node that is rotated: its matrix has skew terms.
NodeRotated ==
    FlutterSemanticsNode("r", FALSE,
                         [TransformationEmpty EXCEPT !.scaleX = 0, !.scaleY = 0,
                                                     !.skewX = -1, !.skewY = 1,
                                                     !.transX = 1])

\* Batches of the engine's update-semantics callback over the ids 0, 1, 2:
\* a whole tree, the root with its children in another order, single nodes
\* that change (translated, scaled, rotated), one id twice in a batch, and a
\* root that is its own child.
TreeUpdates ==
    {<<SemanticsUpdate(ROOT_ID, <<>>, NodeA)>>,
     <<SemanticsUpdate(ROOT_ID, <<1, 2>>, NodeContainer),
       SemanticsUpdate(1, <<>>, NodeB),
       SemanticsUpdate(2, <<>>, NodeA)>>,
     <<SemanticsUpdate(ROOT_ID, <<2, 1>>, NodeContainer)>>,
     <<SemanticsUpdate(1, <<2>>, NodeHidden)>>,
     <<SemanticsUpdate(1, <<>>, NodeLeft)>>,
     <<SemanticsUpdate(1, <<>>, NodeB)>>,
     <<SemanticsUpdate(2, <<>>, NodeScaled)>>,
     <<SemanticsUpdate(2, <<>>, NodeRotated)>>,
     <<SemanticsUpdate(1, <<>>, NodeB), SemanticsUpdate(1, <<2>>, NodeB)>>,
     <<SemanticsUpdate(ROOT_ID, <<ROOT_ID>>, NodeA)>>}

TreeInit ==
    /\ WindowIdle
    /\ TaskIdle
    /\ EmbedderReady

\* The loop receives an UpdateSemantics event.
OnUpdateSemantics ==
    /\ \E updates \in TreeUpdates :
        Handle(PlatformEvent(0, "UpdateSemantics", updates))
    /\ UNCHANGED term_size

\* The loop receives Ctrl+z, which toggles the overlay.
OnToggleOverlay ==
    /\ Handle(PlatformEvent(0, "TerminalEvent", KeyEvent("z", TRUE)))
    /\ UNCHANGED term_size

\* The loop receives a frame of the engine while the tree is in use.
OnFrame ==
    /\ Handle(PlatformEvent(0, "Draw", <<<<PixelWhite>>, <<PixelZero>>>>))
    /\ UNCHANGED term_size

TreeNext ==
    \/ OnUpdateSemantics
    \/ OnToggleOverlay
    \/ OnFrame

TreeSpec == TreeInit /\ [][TreeNext]_vars

-----------------------------------------------------------------------------
\* The viewport under the input handlers: zoom, scale and pan keys and mouse
\* gestures, resizes and frames, each handled by the loop as it arrives.

\* The cells the mouse is at when it reports.
MousePositions == {<<0, 0>>, <<1, 1>>}

\* The zoom, the scale and the pan stay within the bounds.
InView(v) ==
    /\ v.zoom \in (0 - MaxZoom)..MaxZoom
    /\ v.scale \in (0 - MaxZoom)..MaxZoom
    /\ v.window_offset[1] \in (0 - MaxPan * PixelsPerCol)..(MaxPan * PixelsPerCol)
    /\ v.window_offset[2] \in (0 - MaxPan * PixelsPerRow)..(MaxPan * PixelsPerRow)

ViewInit ==
    /\ WindowIdle
    /\ TaskIdle
    /\ EmbedderReady

\* The frame the engine renders.
ViewBuffer == <<<<PixelWhite>>, <<PixelZero>>>>

\* The loop receives Ctrl+r, Ctrl+5 or Ctrl+4.
OnControlKey ==
    /\ \E code \in {"r", "5", "4"} :
        Handle(PlatformEvent(0, "TerminalEvent",
                             normalize_event_height(KeyEvent(code, TRUE))))
    /\ InView(viewport')
    /\ UNCHANGED term_size

\* The loop receives a press, a drag or a wheel turn made with Control held.
OnControlMouse ==
    /\ \E kind \in {"Down", "Drag", "ScrollUp", "ScrollDown"}, at \in MousePositions :
        Handle(PlatformEvent(0, "TerminalEvent",
                             normalize_event_height(
                                 MouseEvent(kind, "Left", at[1], at[2], TRUE))))
    /\ InView(viewport')
    /\ UNCHANGED term_size

\* The sizes the user gives the terminal.
ViewSizes ==
    {[cols |-> 1, rows |-> LOGGING_WINDOW_HEIGHT + 1],
     [cols |-> 2, rows |-> LOGGING_WINDOW_HEIGHT + 2],
     [cols |-> 2, rows |-> LOGGING_WINDOW_HEIGHT + 3]}

\* The user resizes the terminal and the loop receives the event of it.
OnResize ==
    \E to \in ViewSizes \ {term_size} :
        /\ term_size' = to
        /\ Handle(PlatformEvent(0, "TerminalEvent",
                                normalize_event_height(ResizeEvent(to.cols, to.rows))))

\* The loop receives a frame of the engine.
OnDraw ==
    /\ Handle(PlatformEvent(0, "Draw", ViewBuffer))
    /\ UNCHANGED term_size

ViewNext ==
    \/ OnControlKey
    \/ OnControlMouse
    \/ OnResize
    \/ OnDraw

ViewSpec == ViewInit /\ [][ViewNext]_vars

-----------------------------------------------------------------------------
\* The pointer under the input handlers: mouse and key events of every kind,
\* with and without modifiers, each handled by the loop as it arrives.

\* The kinds of mouse events with the button of those that have one.
MouseKinds ==
    {<<"Down", "Left">>, <<"Up", "Left">>, <<"Drag", "Left">>,
     <<"Moved", "None">>, <<"ScrollUp", "None">>, <<"ScrollDown", "None">>}

\* The modifiers held with an event.
ModifiersHeld == {{}, CONTROL_KEY, {"CONTROL", "SHIFT"}}

\* The loop receives an event of the mouse.
OnMouse ==
    /\ \E kind \in MouseKinds, at \in MousePositions, modifiers \in ModifiersHeld :
        Handle(PlatformEvent(0, "TerminalEvent",
                   normalize_event_height(
                       with_modifiers(MouseEvent(kind[1], kind[2], at[1], at[2], FALSE),
                                      modifiers))))
    /\ InView(viewport')
    /\ UNCHANGED term_size

\* The loop receives a key.
OnKey ==
    /\ \E code \in {"z", "r", "a"}, modifiers \in ModifiersHeld :
        Handle(PlatformEvent(0, "TerminalEvent",
                   normalize_event_height(
                       with_modifiers(KeyEvent(code, FALSE), modifiers))))
    /\ InView(viewport')
    /\ UNCHANGED term_size

PointerNext ==
    \/ OnMouse
    \/ OnKey

PointerSpec == ViewInit /\ [][PointerNext]_vars

\* What OnDraw does to last_event, whatever the outcome of its calls.
FrameHandled ==
    /\ pc = "recv"
    /\ \E result \in {"Ok", "Err", "Panic"} :
        last_event' = [made |-> TRUE, tick |-> 1 - last_event.tick,
                       event |-> PlatformEvent(0, "Draw", ViewBuffer),
                       result |-> result,
                       calls |-> <<window_metrics(viewport)>>]

\* The engine answers schedule_frame with a frame, so that frames keep
\* arriving while the loop runs.
FairViewSpec == ViewSpec /\ WF_last_event(FrameHandled)

\* ------------------------------------------------ claims on the task runner
\* The part of C1 that the code keeps: no run_expired_tasks call runs a task
\* whose target time is still in the future at that call.
FutureTaskNeverRun ==
    last_call.made =>
        \A i \in 1..Len(last_call.before) :
            LET t == last_call.before[i] IN
            t.target_time_nanos > last_call.now => t.id \notin Range(last_call.ran)

\* C1: over any sequence of post and run_expired calls, a task whose fire time
\* is still in the future at a run_expired call is not run by that call and
\* is still queued after it.
C1_FutureTaskNotRunAndStaysQueued ==
    last_call.made =>
        \A i \in 1..Len(last_call.before) :
            LET t == last_call.before[i] IN
            t.target_time_nanos > last_call.now =>
                /\ t.id \notin Range(last_call.ran)
                /\ t \in Range(last_call.after)

\* No task is handed to FlutterEngineRunTask twice (the part of C2 that the
\* code keeps).
RunAtMostOnce ==
    \A i, j \in 1..Len(ran) : ran[i] = ran[j] => i = j

\* C2: each posted task is run at most once; a run_expired call at which the
\* task's fire time has passed runs it and removes it from the queue, and a
\* task whose fire time is still ahead at the call stays queued.
C2_RunExactlyOnceWhenDue ==
    /\ RunAtMostOnce
    /\ last_call.made =>
        \A i \in 1..Len(last_call.before) :
            LET t == last_call.before[i] IN
            /\ t.target_time_nanos < last_call.now =>
                    t.id \in Range(last_call.ran) /\ t \notin Range(last_call.after)
            /\ t.target_time_nanos > last_call.now =>
                    t \in Range(last_call.after)

\* C3: when a due task's run fails inside run_expired, the call returns the
\* error and every task it did not run (deferred before the failure, or not
\* yet examined) is still queued, in order; only tasks that were run are gone.
C3_FailedRunPreservesQueue ==
    (last_call.made /\ last_call.result = "Err") =>
        last_call.after =
            SelectSeq(last_call.before, LAMBDA t : t.id \notin Range(last_call.ran))

\* What the code does instead: a failed run leaves the queue empty.
FailedRunEmptiesQueue ==
    (last_call.made /\ last_call.result = "Err") => last_call.after = <<>>

\* ------------------------------------------------ claims on the event loop
\* A handled event that is the quit combination, Ctrl+c.
IsQuit(e) ==
    /\ e.kind = "TerminalEvent"
    /\ e.payload.type = "Key"
    /\ e.payload.code = "c"
    /\ e.payload.control

QuitHandled == \E i \in 1..Len(handled) : IsQuit(handled[i])

\* The iteration (from 1) that handled the first quit combination.
QuitIndex ==
    CHOOSE i \in 1..Len(handled) :
        IsQuit(handled[i]) /\ \A j \in 1..(i - 1) : ~IsQuit(handled[j])

LoopRunning == pc \in {"recv", "poll"}

\* The engine and the user can still send an event.
EventsMayArrive == sent < MaxEvents

DueInQueue(id) ==
    \E i \in 1..Len(tasks) :
        tasks[i].id = id /\ can_run_now(tasks[i], clock)

\* C4: while the event loop keeps running, every task that is queued in the
\* runner and whose target time has passed is eventually run, whatever events
\* arrive (and so also when none arrives, though one still could).
C4_DueTaskEventuallyRun ==
    \A id \in 1..MaxTasks :
        (DueInQueue(id) /\ LoopRunning /\ EventsMayArrive)
            ~> (id \in Range(ran) \/ ~LoopRunning \/ ~EventsMayArrive)

\* C5: the loop handles the events in the order they arrived on the channel
\* (the i-th event handled is the i-th event sent), and it calls
\* run_expired_tasks once per iteration, after the iteration's handler: the
\* calls made equal the iterations whose handler has returned Ok.
C5_ArrivalOrderAndOnePollPerIteration ==
    /\ \A i \in 1..Len(handled) : handled[i].id = i
    /\ pc \in {"start", "init"} => polls = 0 /\ handled = <<>>
    /\ pc = "recv" => polls = Len(handled)
    /\ pc = "poll" => polls + 1 = Len(handled)
    /\ pc = "exited" =>
           \/ polls = Len(handled)
           \/ polls + 1 = Len(handled) /\ exit_code /= 0

\* The loop is between a handler and its poll, after an earlier iteration,
\* while another event waits in the channel.
C5_SecondIterationWithEventWaiting ==
    /\ pc = "poll"
    /\ Len(handled) >= 2
    /\ channel /= <<>>

\* C6: a step of an engine callback thread or of the input thread changes
\* neither the viewport state, the semantics tree, the frame cache nor the
\* runner's queue, and runs no task: all it does to the program's state is
\* to append one event to the channel. Every other change is made by a step
\* of the platform thread.
C6_OnlyPlatformThreadMutates ==
    [][(~PlatformStep) =>
          /\ UNCHANGED <<viewport, should_run, show_semantics, semantics_tree,
                         semantics, lines, showing_help, logs, tasks, ran>>
          /\ \/ channel' = channel
             \/ /\ Len(channel') = Len(channel) + 1
                /\ SubSeq(channel', 1, Len(channel)) = channel]_vars

\* The loop has posted a task from an EngineTask event while an event of the
\* input thread waits in the channel.
C6_TaskPostedAndInputWaiting ==
    /\ tasks /= <<>>
    /\ \E i \in 1..Len(channel) : channel[i].kind = "TerminalEvent"

Issued(command) ==
    \E i \in 1..Len(terminal.commands) : terminal.commands[i] = command

C8_QuitExitsWithSuccess ==
    QuitHandled =>
        /\ ~should_run
        /\ Len(handled) = QuitIndex
        /\ pc = "exited" => exit_code = 0

\* C9: once the quit combination has been handled, no task is run any more.
C9_NoTaskRunAfterQuit ==
    [][QuitHandled => ran' = ran]_vars

\* C9 as the code keeps it: once the quit combination has been handled, a
\* task is run only by the run_expired_tasks call that ends the iteration
\* which handled it; after that call no task is run, and the tasks still
\* queued are dropped with the runner.
C9_TaskRunOnlyByPollOfQuitIteration ==
    [][(QuitHandled /\ ran' /= ran) =>
          (pc = "poll" /\ Len(handled) = QuitIndex)]_vars

\* The process has exited with success after a quit whose iteration ended
\* with a run_expired_tasks call that ran a task.
C9_TaskRunByPollOfQuitIteration ==
    /\ pc = "exited"
    /\ QuitHandled
    /\ exit_code = 0
    /\ last_call.made
    /\ last_call.ran /= <<>>

\* ------------------------------------------------- claims on the renderer
\* The cells (column, line from 0) at which two frames of the same size
\* differ in their packed colour pair.
ColorPairDiffers(f1, f2) ==
    UNION {{<<x - 1, y - 1>> : x \in
                {c \in 1..Len(f2[y]) :
                    \/ f1[y][c].top /= f2[y][c].top
                    \/ f1[y][c].bottom /= f2[y][c].bottom}} :
           y \in 1..Len(f2)}

\* The cells at which two frames of the same size differ in colour pair or
\* in overlay label.
CellDiffers(f1, f2) ==
    UNION {{<<x - 1, y - 1>> : x \in {c \in 1..Len(f2[y]) : f1[y][c] /= f2[y][c]}} :
           y \in 1..Len(f2)}

\* A step that draws a frame F2 after a drawn frame F1, the terminal's size
\* not having changed since F1.
ConsecutiveFrames ==
    /\ last_draw'.made /\ last_draw'.tick /= last_draw.tick
    /\ last_draw'.drawn
    /\ frame_hist.have /\ ~frame_hist.resized

\* C10: for consecutive frames F1, F2 drawn at an unchanged terminal size,
\* the draw of F2 writes a glyph to exactly the cells whose packed colour
\* pair differs between F1 and F2.
C10_WritesExactlyColorPairDiff ==
    [][ConsecutiveFrames =>
         last_draw'.written = ColorPairDiffers(frame_hist.cells, frame_hist'.cells)]_vars

\* C10 as the code keeps it: with no invalidation of the cache (mark_dirty)
\* between the two frames, the draw of F2 writes a glyph to exactly the cells
\* whose colour pair or overlay label differs between F1 and F2.
C10_WritesExactlyCellDiff ==
    [][(ConsecutiveFrames /\ ~frame_hist.dirty) =>
         last_draw'.written = CellDiffers(frame_hist.cells, frame_hist'.cells)]_vars

\* A frame drawn after another at the same size with the cache intact that
\* wrote some but not all of its cells.
C10_PartialRepaint ==
    /\ last_draw.made /\ last_draw.drawn
    /\ last_draw.prev.have /\ ~last_draw.prev.resized /\ ~last_draw.prev.dirty
    /\ last_draw.written /= {}
    /\ last_draw.written /= glyph_writes_all(<<>>, frame_hist.cells)

\* Every cell (column, line from 0) of a frame.
AllCells(f) ==
    UNION {{<<x - 1, y - 1>> : x \in 1..Len(f[y])} : y \in 1..Len(f)}

\* A step that draws a frame whose grid differs in size (lines or columns)
\* from the grid of the frame drawn before it.
FrameAfterSizeChange ==
    /\ last_draw'.made /\ last_draw'.tick /= last_draw.tick
    /\ last_draw'.drawn
    /\ frame_hist.have
    /\ \/ Len(frame_hist'.cells) /= Len(frame_hist.cells)
       \/ Len(frame_hist'.cells[1]) /= Len(frame_hist.cells[1])

\* C11: after a change of the terminal's size, in rows or in columns, the
\* next frame drawn writes every cell of the new grid, whatever the cache held.
C11_FrameAfterSizeChangeRepaintsAll ==
    [][FrameAfterSizeChange =>
         last_draw'.written = AllCells(frame_hist'.cells)]_vars

\* What the code keeps of C11: the frame repaints every cell when the number
\* of lines changed, or when the cache was invalidated (mark_dirty, which the
\* handler of the resize event calls) since the frame before.
LineCountChangeRepaintsAll ==
    [][(FrameAfterSizeChange
        /\ (Len(frame_hist'.cells) /= Len(frame_hist.cells) \/ frame_hist.dirty))
        => last_draw'.written = AllCells(frame_hist'.cells)]_vars

\* The cache holds the last frame that was flushed, or it is invalidated:
\* cleared by mark_dirty, or replaced by empty lines for a new line count.
CacheIsFlushedFrameOrInvalidated ==
    \/ lines = <<>>
    \/ \A k \in 1..Len(lines) : lines[k] = <<>>
    \/ frame_hist.have /\ lines = frame_hist.cells

\* C12: when writing or flushing a frame fails, draw returns the error and
\* the cache is not replaced by the failed frame: it holds the last frame
\* that was flushed, or its invalidated state.
C12_FailedDrawLeavesCache ==
    (last_draw.made /\ last_draw.result = "Err") =>
        /\ ~last_draw.drawn
        /\ CacheIsFlushedFrameOrInvalidated

\* A draw failed after a frame was flushed, and the cache still holds that
\* frame.
C12_FailedDrawAfterFlushedFrame ==
    /\ last_draw.made /\ last_draw.result = "Err"
    /\ frame_hist.have /\ ~frame_hist.dirty /\ ~frame_hist.resized
    /\ lines = frame_hist.cells

\* ------------------------------------------ claims on the semantics tree
\* A step in which the loop handles an event of the given kind.
Handles(kind) ==
    /\ last_event'.made /\ last_event'.tick /= last_event.tick
    /\ last_event'.event.kind = kind

\* The last update of a batch for an id, if the batch has one.
UpdatesFor(updates, id) == {i \in 1..Len(updates) : updates[i].id = id}

LastUpdateFor(updates, id) ==
    updates[CHOOSE i \in UpdatesFor(updates, id) :
                \A j \in UpdatesFor(updates, id) : j <= i]

\* C13: applying a batch of updates replaces the stored node and children of
\* each id the batch names by the values of the batch's last update for that
\* id, and leaves the node and children of every other id as they were; ids
\* the batch does not name persist.
C13_UpdateReplacesNamedIdsOnly ==
    [][Handles("UpdateSemantics") =>
        LET updates == last_event'.event.payload
            named == {updates[i].id : i \in 1..Len(updates)}
        IN  /\ DOMAIN semantics_tree'.id_map = DOMAIN semantics_tree.id_map \cup named
            /\ DOMAIN semantics_tree'.adjacency_list =
                   DOMAIN semantics_tree.adjacency_list \cup named
            /\ \A id \in named :
                /\ semantics_tree'.id_map[id] = LastUpdateFor(updates, id).node
                /\ semantics_tree'.adjacency_list[id] =
                       LastUpdateFor(updates, id).children
            /\ \A id \in DOMAIN semantics_tree.id_map \ named :
                /\ semantics_tree'.id_map[id] = semantics_tree.id_map[id]
                /\ semantics_tree'.adjacency_list[id] =
                       semantics_tree.adjacency_list[id]]_vars

\* A batch that named id 1 twice (children [] and then [2]) was applied to a
\* tree that held the ids 0 and 2: id 1 has the children [2], and the other
\* two ids are still stored.
C13_SecondUpdateOfBatchWon ==
    /\ last_event.made
    /\ last_event.event.kind = "UpdateSemantics"
    /\ Len(last_event.event.payload) = 2
    /\ last_event.event.payload[1].id = 1 /\ last_event.event.payload[2].id = 1
    /\ semantics_tree.adjacency_list[1] = <<2>>
    /\ {ROOT_ID, 2} \subseteq DOMAIN semantics_tree.id_map
    /\ semantics_tree.id_map[2] = NodeScaled

\* The children list stored for an id, empty for an id that has none.
ChildrenOf(tree, id) ==
    IF id \in DOMAIN tree.adjacency_list THEN tree.adjacency_list[id] ELSE <<>>

\* A path from the root is a sequence of positions in children lists. The id
\* it leads to, or -1 when it leaves the tree.
RECURSIVE IdAt(_, _)
IdAt(tree, path) ==
    IF path = <<>>
    THEN ROOT_ID
    ELSE LET children == ChildrenOf(tree, IdAt(tree, SubSeq(path, 1, Len(path) - 1)))
             position == path[Len(path)]
         IN  IF position <= Len(children) THEN children[position] ELSE -1

\* The paths of the tree: every node reachable from the root, once for each
\* way of reaching it.
PathsOf(tree) ==
    LET ids == DOMAIN tree.id_map
        widest == Cardinality(ids)
        candidates == UNION {[1..n -> 1..widest] : n \in 0..(Cardinality(ids) - 1)}
    IN  {path \in candidates : IdAt(tree, path) \in ids}

\* Depth-first pre-order: a node comes before its descendants, and the
\* subtree of an earlier child before the subtree of a later one.
PreorderBefore(p, q) ==
    \/ Len(p) < Len(q) /\ SubSeq(q, 1, Len(p)) = p
    \/ \E k \in 1..Len(p) :
        /\ k <= Len(q)
        /\ SubSeq(p, 1, k - 1) = SubSeq(q, 1, k - 1)
        /\ p[k] < q[k]

InPreorder(paths) ==
    [i \in 1..Cardinality(paths) |->
        CHOOSE p \in paths :
            Cardinality({q \in paths : PreorderBefore(q, p)}) = i - 1]

\* The transform of the node at a path composed with the transforms of all
\* its ancestors.
RECURSIVE ComposedAt(_, _)
ComposedAt(tree, path) ==
    IF path = <<>>
    THEN tree.id_map[ROOT_ID].transform
    ELSE merge_with(tree.id_map[IdAt(tree, path)].transform,
                    ComposedAt(tree, SubSeq(path, 1, Len(path) - 1)))

IsLabelled(tree, path) ==
    LET node == tree.id_map[IdAt(tree, path)]
    IN  ~node.is_hidden /\ node.label /= ""

\* The (anchor, label) pairs of the labelled, not hidden nodes reachable from
\* the root, in depth-first pre-order. exact: the anchor is the product
\* itself; otherwise it is the product as the unsigned pixel coordinate the
\* code converts it to.
ExpectedLabelPositions(tree, exact) ==
    LET visits == SelectSeq(InPreorder(PathsOf(tree)),
                            LAMBDA path : IsLabelled(tree, path))
        coordinate(v) == IF exact THEN v ELSE as_usize(v)
    IN  [i \in 1..Len(visits) |->
            LET transform == ComposedAt(tree, visits[i])
            IN  << << coordinate(transform.transX * transform.scaleX),
                      coordinate(transform.transY * transform.scaleY) >>,
                   tree.id_map[IdAt(tree, visits[i])].label >>]

\* The loop has just handled an UpdateSemantics event whose traversal returned.
TraversalReturned ==
    /\ last_event.made
    /\ last_event.event.kind = "UpdateSemantics"
    /\ last_event.result = "Ok"

\* C14: as_label_positions returns exactly the (anchor, label) pairs of the
\* nodes reachable from root id 0, in depth-first pre-order following each
\* children list in its stored order, without the nodes that are hidden or
\* have an empty label; each anchor is (transX*scaleX, transY*scaleY) of the
\* node's transform composed with the transforms of all its ancestors.
C14_LabelPositionsArePreorderWithExactAnchors ==
    TraversalReturned =>
        as_label_positions(semantics_tree).labels =
            ExpectedLabelPositions(semantics_tree, TRUE)

\* What the code keeps of C14: the same pairs in the same order, each anchor
\* coordinate converted to usize, which turns a negative product into 0.
LabelPositionsArePreorderWithUnsignedAnchors ==
    TraversalReturned =>
        as_label_positions(semantics_tree).labels =
            ExpectedLabelPositions(semantics_tree, FALSE)

\* C15: for every tree that updates can build, the traversal from root 0
\* terminates (and yields a finite sequence of label positions).
C15_TraversalTerminates ==
    (last_event.made /\ last_event.event.kind = "UpdateSemantics") =>
        last_event.result /= "StackOverflow"

\* The trees on which the traversal does return: every id reachable from the
\* root is stored, and no path from the root comes back to an id on it.
TraversalReturnsOnTrees ==
    (last_event.made /\ last_event.event.kind = "UpdateSemantics") =>
        (last_event.result = "Ok" <=>
            /\ ROOT_ID \in DOMAIN semantics_tree.id_map
            /\ \A path \in UNION {[1..n -> 1..Cardinality(DOMAIN semantics_tree.id_map)] :
                                  n \in 1..Cardinality(DOMAIN semantics_tree.id_map)} :
                LET from == IdAt(semantics_tree, SubSeq(path, 1, Len(path) - 1))
                    position == path[Len(path)]
                IN  (from \in DOMAIN semantics_tree.id_map
                     /\ position <= Len(ChildrenOf(semantics_tree, from)))
                    => /\ IdAt(semantics_tree, path) \in DOMAIN semantics_tree.id_map
                       /\ \A k \in 0..(Len(path) - 1) :
                            IdAt(semantics_tree, SubSeq(path, 1, k)) /=
                                IdAt(semantics_tree, path))

\* The event is the overlay toggle, Ctrl+z.
IsOverlayToggle(e) ==
    /\ e.kind = "TerminalEvent"
    /\ e.payload.type = "Key"
    /\ e.payload.code = "z"
    /\ e.payload.control

\* A step that handles the toggle which enables the overlay again, the event
\* handled before it having been the toggle that disabled it: the tree is
\* still the one that was stored when the overlay was disabled.
ReenablesAfterDisable ==
    /\ Handles("TerminalEvent")
    /\ IsOverlayToggle(last_event'.event)
    /\ last_event.made /\ IsOverlayToggle(last_event.event)
    /\ ~show_semantics /\ show_semantics'

\* C16: when the overlay is disabled and then enabled again, the tree is
\* replaced wholesale: no entry stored before the disable is in the tree
\* that is used after the overlay is enabled again.
C16_TreeReplacedOnReenable ==
    [][ReenablesAfterDisable =>
         /\ DOMAIN semantics_tree'.id_map = {}
         /\ DOMAIN semantics_tree'.adjacency_list = {}]_vars

\* What the code does: no toggle of the overlay touches the tree.
ToggleKeepsTree ==
    [][(Handles("TerminalEvent") /\ IsOverlayToggle(last_event'.event))
         => semantics_tree' = semantics_tree]_vars

\* The transforms the traversal composes: those of the stored nodes.
StoredTransforms ==
    {semantics_tree.id_map[id].transform : id \in DOMAIN semantics_tree.id_map}

\* C17: composing the identity transform (FlutterTransformation::empty) with
\* a transform T, in either order, yields T unchanged in every component.
C17_IdentityComposesToSame ==
    \A T \in StoredTransforms :
        /\ merge_with(T, TransformationEmpty) = T
        /\ merge_with(TransformationEmpty, T) = T

\* What the code keeps of C17: scale, translation and pers2 are unchanged.
IdentityKeepsScaleAndTranslation ==
    \A T \in StoredTransforms :
        \A merged \in {merge_with(T, TransformationEmpty),
                       merge_with(TransformationEmpty, T)} :
            /\ merged.scaleX = T.scaleX /\ merged.scaleY = T.scaleY
            /\ merged.transX = T.transX /\ merged.transY = T.transY
            /\ merged.pers2 = T.pers2

-----------------------------------------------------------------------------
\* Claims on the viewport.

\* The terminal event e is Control held with the key code.
IsControlKey(e, code) ==
    /\ e.kind = "TerminalEvent"
    /\ e.payload.type = "Key"
    /\ e.payload.control
    /\ e.payload.code = code

\* The step handles Ctrl+r.
HandlesReset == Handles("TerminalEvent") /\ IsControlKey(last_event'.event, "r")

\* The viewport v is the unzoomed, unscaled and unpanned one.
IsReset(v) == v.zoom = 0 /\ v.scale = 0 /\ v.window_offset = <<0, 0>>

\* C18: handling Ctrl+r sets zoom = 1.0, scale = 1.0 and the offset to (0, 0),
\* and the handler issues a window-metrics event whose pixel ratio is the base
\* device-pixel-ratio (ZOOM_FACTOR to the power 0 times the base).
C18_ResetIssuesBaseMetrics ==
    [][HandlesReset =>
        /\ IsReset(viewport')
        /\ \E i \in DOMAIN last_event'.calls :
            /\ last_event'.calls[i].call = "send_window_metrics_event"
            /\ last_event'.calls[i].pixel_ratio = 0]_vars

\* What the reset does: the viewport is reset, the frame cache is dirty and
\* the one call on the engine is schedule_frame.
ResetSetsViewportAndSchedulesFrame ==
    [][HandlesReset =>
        /\ IsReset(viewport')
        /\ lines' = <<>>
        /\ last_event'.calls = <<schedule_frame>>]_vars

\* The terminal event e is a mouse event of the kind with Control held and,
\* where the kind has a button, the left one.
IsControlMouse(e, kind) ==
    /\ e.kind = "TerminalEvent"
    /\ e.payload.type = "Mouse"
    /\ e.payload.control
    /\ e.payload.kind = kind
    /\ e.payload.button = "Left"

\* The position an event of the mouse reports.
PositionOf(e) == <<e.payload.column, e.payload.row>>

\* C19: a Control+press records the anchor A (the position of the press) and
\* the pre-drag offset O (the offset at the press), and every Control+drag at
\* a position P sets the offset to O - (P - A) in both coordinates, which is O
\* when P = A, and keeps A and O, so that the drags of a gesture do not add up.
C19_DragOffsetIsPressOffsetMinusTravel ==
    [][/\ (Handles("TerminalEvent") /\ IsControlMouse(last_event'.event, "Down")) =>
            /\ viewport'.mouse_down_pos = PositionOf(last_event'.event)
            /\ viewport'.prev_window_offset = viewport.window_offset
            /\ viewport'.window_offset = viewport.window_offset
       /\ (Handles("TerminalEvent") /\ IsControlMouse(last_event'.event, "Drag")) =>
            LET P == PositionOf(last_event'.event)
                A == viewport.mouse_down_pos
                O == viewport.prev_window_offset
            IN  /\ viewport'.window_offset[1] = O[1] - (P[1] - A[1])
                /\ viewport'.window_offset[2] = O[2] - (P[2] - A[2])
                /\ P = A => viewport'.window_offset = O
                /\ viewport'.mouse_down_pos = A
                /\ viewport'.prev_window_offset = O]_vars

\* A drag of a second gesture: the press found the viewport panned by an
\* earlier gesture, and the drag has moved it in both coordinates.
C19_DraggedFromPannedOffset ==
    /\ last_event.made
    /\ IsControlMouse(last_event.event, "Drag")
    /\ last_event.result = "Ok"
    /\ viewport.prev_window_offset[1] /= 0
    /\ viewport.prev_window_offset[2] /= 0
    /\ PositionOf(last_event.event) /= viewport.mouse_down_pos
    /\ viewport.window_offset[1] /= viewport.prev_window_offset[1]
    /\ viewport.window_offset[2] /= viewport.prev_window_offset[2]

\* The step handles the event of a resize.
HandlesResize ==
    Handles("TerminalEvent") /\ last_event'.event.payload.type = "Resize"

\* C20: handling a resize event sets dimensions to the size of the event and
\* marks the frame cache dirty, and leaves zoom, scale, the offset, the drag
\* anchor and the pre-drag offset as they were.
C20_ResizeSetsDimensionsOnly ==
    [][HandlesResize =>
        /\ viewport'.dimensions = <<last_event'.event.payload.columns,
                                    last_event'.event.payload.rows>>
        /\ lines' = <<>>
        /\ viewport'.zoom = viewport.zoom
        /\ viewport'.scale = viewport.scale
        /\ viewport'.window_offset = viewport.window_offset
        /\ viewport'.mouse_down_pos = viewport.mouse_down_pos
        /\ viewport'.prev_window_offset = viewport.prev_window_offset]_vars

\* A resize handled with the viewport zoomed, scaled and panned and a drag
\* anchor and a pre-drag offset recorded.
C20_ResizedWhileZoomedAndPanned ==
    /\ last_event.made
    /\ last_event.event.kind = "TerminalEvent"
    /\ last_event.event.payload.type = "Resize"
    /\ last_event.result = "Ok"
    /\ viewport.dimensions = <<2 * PixelsPerCol, 2 * PixelsPerRow>>
    /\ viewport.zoom /= 0
    /\ viewport.scale /= 0
    /\ viewport.window_offset /= <<0, 0>>
    /\ viewport.mouse_down_pos /= <<0, 0>>
    /\ viewport.prev_window_offset /= <<0, 0>>

\* The last step handled an event whose handler assigns dimensions, zoom or
\* scale: a resize, Ctrl+r, a Control+wheel turn, Ctrl+5 or Ctrl+4.
ViewportChanged ==
    /\ last_event.made
    /\ last_event.event.kind = "TerminalEvent"
    /\ \/ last_event.event.payload.type = "Resize"
       \/ \E code \in {"r", "5", "4"} : IsControlKey(last_event.event, code)
       \/ /\ last_event.event.payload.type = "Mouse"
          /\ last_event.event.payload.control
          /\ last_event.event.payload.kind \in {"ScrollUp", "ScrollDown"}

\* The last step issued the window-metrics event of the viewport v: width and
\* height round(dimensions x zoom), pixel ratio base x zoom x scale.
MetricsIssuedFor(v) ==
    /\ last_event.made
    /\ \E i \in DOMAIN last_event.calls :
        /\ last_event.calls[i].call = "send_window_metrics_event"
        /\ last_event.calls[i].width = zoomed(v.dimensions[1], v.zoom)
        /\ last_event.calls[i].height = zoomed(v.dimensions[2], v.zoom)
        /\ last_event.calls[i].pixel_ratio = v.zoom + v.scale

-----------------------------------------------------------------------------
\* Claims on the pointer.

\* The event that the loop receives for a mouse event of the kind at the
\* terminal cell with the modifiers held.
MouseAt(kind, button, cell, modifiers) ==
    PlatformEvent(0, "TerminalEvent",
        normalize_event_height(
            with_modifiers(MouseEvent(kind, button, cell[1], cell[2], FALSE),
                           modifiers)))

\* The step handles the event e.
HandlesEvent(e) == Handles(e.kind) /\ last_event'.event = e

\* C22: a scroll-up without modifiers at the cell (c, r) sends exactly one
\* pointer event, with phase up, signal scroll, scroll delta -10 and no
\* buttons, at (c x pixels per column, r x pixels per row) moved by the
\* offset; a scroll-down sends phase down with delta +10 at the same place.
C22_PlainScrollSendsOneScrollEvent ==
    [][\A cell \in MousePositions :
        LET x == cell[1] * PixelsPerCol + viewport.window_offset[1]
            y == cell[2] * PixelsPerRow + viewport.window_offset[2]
        IN  /\ HandlesEvent(MouseAt("ScrollUp", "None", cell, {})) =>
                last_event'.calls =
                    <<send_pointer_event("Up", x, y, "Scroll", 0 - 10, <<>>)>>
            /\ HandlesEvent(MouseAt("ScrollDown", "None", cell, {})) =>
                last_event'.calls =
                    <<send_pointer_event("Down", x, y, "Scroll", 10, <<>>)>>]_vars

\* A scroll-up at the cell (1, 1) sent on with the viewport panned by (1, 2).
C22_ScrollUpSentFromPannedViewport ==
    /\ last_event.made
    /\ last_event.event = MouseAt("ScrollUp", "None", <<1, 1>>, {})
    /\ last_event.result = "Ok"
    /\ viewport.window_offset = <<1, 2>>
    /\ Len(last_event.calls) = 1
    /\ last_event.calls[1].x = 2
    /\ last_event.calls[1].y = 4

\* The hover event with no button at the cell moved by the offset.
HoverAt(cell, window_offset) ==
    send_pointer_event("Hover", cell[1] * PixelsPerCol + window_offset[1],
                       cell[2] * PixelsPerRow + window_offset[2], "None", 0, <<>>)

\* C23: every mouse drag and every mouse move without modifiers is sent to
\* the engine as a hover pointer event with no button, at the cell scaled to
\* pixels and moved by the offset.
C23_PlainDragAndMoveSentAsHover ==
    [][\A cell \in MousePositions :
        /\ HandlesEvent(MouseAt("Drag", "Left", cell, {})) =>
            last_event'.calls = <<HoverAt(cell, viewport.window_offset)>>
        /\ HandlesEvent(MouseAt("Moved", "None", cell, {})) =>
            last_event'.calls = <<HoverAt(cell, viewport.window_offset)>>]_vars

\* What the code does: a move is sent as a hover event, a drag is dropped.
PlainMoveSentAsHoverAndDragDropped ==
    [][\A cell \in MousePositions :
        /\ HandlesEvent(MouseAt("Drag", "Left", cell, {})) =>
            last_event'.calls = <<>>
        /\ HandlesEvent(MouseAt("Moved", "None", cell, {})) =>
            last_event'.calls = <<HoverAt(cell, viewport.window_offset)>>]_vars

\* The step handles a key or mouse event that carries the Control modifier.
HandlesControlInput ==
    /\ Handles("TerminalEvent")
    /\ last_event'.event.payload.type \in {"Key", "Mouse"}
    /\ "CONTROL" \in last_event'.event.payload.modifiers

\* The calls of the step are requests of a frame or of the semantics only.
OnlyControlRequests ==
    \A i \in DOMAIN last_event'.calls :
        last_event'.calls[i].call \in {"schedule_frame", "update_semantics"}

\* C24: a key or mouse event that carries Control, whatever its kind and the
\* other modifiers with it, sends no pointer and no key event to the engine:
\* its handler only requests a frame or the semantics.
C24_ControlInputIsIntercepted ==
    [][HandlesControlInput => OnlyControlRequests]_vars

\* What the code does: an event is intercepted when Control is its only
\* modifier.
ControlAloneIsIntercepted ==
    [][(HandlesControlInput /\ last_event'.event.payload.modifiers = CONTROL_KEY)
        => OnlyControlRequests]_vars

-----------------------------------------------------------------------------
\* Claims on the overlay.

\* C25: each Ctrl+z flips the overlay flag and issues update_semantics to the
\* engine with the new value of the flag; when the new value is off, the
\* label positions of the window are cleared and the frame cache is marked
\* dirty in the same step.
C25_ToggleFlipsAndTellsEngine ==
    [][(Handles("TerminalEvent") /\ IsOverlayToggle(last_event'.event)) =>
        /\ show_semantics' = ~show_semantics
        /\ last_event'.calls = <<engine_update_semantics(show_semantics')>>
        /\ ~show_semantics' => (semantics' = EmptySemantics /\ lines' = <<>>)
        /\ show_semantics' => (semantics' = semantics /\ lines' = lines)]_vars

\* The overlay switched off after the tree had been filled: the tree is still
\* there and the labels are gone.
C25_OverlayOffAfterLabels ==
    /\ last_event.made
    /\ IsOverlayToggle(last_event.event)
    /\ last_event.result = "Ok"
    /\ ~show_semantics
    /\ semantics_tree /= NewSemanticsTree
    /\ semantics = EmptySemantics
    /\ lines = <<>>

-----------------------------------------------------------------------------
\* Claims on failed and ordered task runs.

\* The step is a poll of the loop in which the run of a task failed.
PollWithFailedRun ==
    /\ pc = "poll"
    /\ polls' = polls + 1
    /\ last_call'.result = "Err"

\* C26: a failed run of one engine task does not end the event loop: after
\* the poll the loop is running and waits for the next event.
C26_FailedTaskRunKeepsLoopRunning ==
    [][PollWithFailedRun =>
        /\ pc' = "recv"
        /\ exit_code' = exit_code]_vars

\* What the code does: the failure is returned out of the loop, nothing is
\* logged and the process exits with the code of an error.
FailedTaskRunEndsLoop ==
    [][PollWithFailedRun =>
        /\ pc' = "exited"
        /\ exit_code' = 1
        /\ logs' = logs]_vars

\* The ids of the tasks of a queue, in its order.
IdsOf(queue) == [i \in 1..Len(queue) |-> queue[i].id]

\* A sequence of ids in the order of posting: ids are given out in that order.
InPostedOrder(ids) == \A i, j \in 1..Len(ids) : i < j => ids[i] < ids[j]

\* C27: a run_expired_tasks call runs the due tasks in the order they were
\* posted, and the tasks left in the queue are in the order they had in it;
\* when no run fails these are all the due tasks and all the others.
C27_RunsAndDefersInPostedOrder ==
    last_call.made =>
        /\ InPostedOrder(last_call.ran)
        /\ InPostedOrder(IdsOf(last_call.after))
        /\ last_call.after =
                SelectSeq(last_call.before, LAMBDA t : t \in Range(last_call.after))
        /\ last_call.result = "Ok" =>
            /\ last_call.ran =
                IdsOf(SelectSeq(last_call.before,
                                LAMBDA t : can_run_now(t, last_call.now)))
            /\ last_call.after =
                SelectSeq(last_call.before,
                          LAMBDA t : ~can_run_now(t, last_call.now))

\* A call that ran the first and the third task of a queue of three and
\* deferred the second.
C27_RanAroundDeferredTask ==
    /\ last_call.made
    /\ last_call.result = "Ok"
    /\ Len(last_call.before) = 3
    /\ last_call.ran = <<last_call.before[1].id, last_call.before[3].id>>
    /\ last_call.after = <<last_call.before[2]>>

\* C28: can_run_now of a task is true if and only if its fire time is at or
\* before the clock of the engine: a run_expired_tasks call in which no run
\* fails runs exactly the tasks whose target time is <= the clock it read, so
\* also a task whose target time is that very clock value.
C28_RunnableFromFireTimeOn ==
    (last_call.made /\ last_call.result = "Ok") =>
        \A i \in 1..Len(last_call.before) :
            LET t == last_call.before[i] IN
            t.id \in Range(last_call.ran) <=> t.target_time_nanos <= last_call.now

\* What the code does: a task is runnable only once the clock has passed its
\* target time.
RunnableOnlyAfterFireTime ==
    (last_call.made /\ last_call.result = "Ok") =>
        \A i \in 1..Len(last_call.before) :
            LET t == last_call.before[i] IN
            t.id \in Range(last_call.ran) <=> t.target_time_nanos < last_call.now

-----------------------------------------------------------------------------
\* Claims on the half-block packer.

\* The colour of the buffer's pixel at (x, y) from 0, of the zero pixel for a
\* place outside the buffer.
ColorAt(pixel_grid, x, y) ==
    IF /\ y >= 0 /\ y < Len(pixel_grid)
       /\ x >= 0 /\ x < Len(pixel_grid[y + 1])
    THEN to_color(pixel_grid[y + 1][x + 1])
    ELSE to_color(PixelZero)

\* The draw failed for a reason that is not the buffer or the pan: the
\* terminal is narrower than the hint, in a build that checks overflow.
FailedForTerminal ==
    /\ last_draw.outcome = "overflow_checked"
    /\ last_draw.result = "Panic"
    /\ size(term_size)[1] < hint_and_fps_len

\* C29: for a buffer of odd pixel height the row below its last row is a row
\* of zero pixels: the line of cells whose upper half is the last row of the
\* buffer is produced, with that row above and zero below, and the odd height
\* raises no error.
C29_OddHeightPackedWithZeroRow ==
    (last_draw.made /\ Len(last_draw.pixel_grid) % 2 = 1) =>
        /\ last_draw.result = "Ok" \/ FailedForTerminal
        /\ \A k \in 1..Len(last_draw.cells) :
            2 * (k - 1) + last_draw.offset[2] = Len(last_draw.pixel_grid) - 1 =>
                \A c \in 1..Len(last_draw.cells[k]) :
                    /\ last_draw.cells[k][c].top =
                            ColorAt(last_draw.pixel_grid,
                                    c - 1 + last_draw.offset[1],
                                    Len(last_draw.pixel_grid) - 1)
                    /\ last_draw.cells[k][c].bottom = to_color(PixelZero)

\* A buffer of three rows drawn unpanned on a terminal of two lines: the
\* second line has the third row above and nothing below.
C29_ThirdRowIsUpperHalf ==
    /\ last_draw.made
    /\ last_draw.result = "Ok"
    /\ Len(last_draw.pixel_grid) = 3
    /\ last_draw.offset = <<0, 0>>
    /\ Len(last_draw.cells) = 2
    /\ last_draw.cells[2][1].top = to_color(last_draw.pixel_grid[3][1])
    /\ last_draw.cells[2][1].top /= to_color(PixelZero)
    /\ last_draw.cells[2][1].bottom = to_color(PixelZero)

\* C30: for every buffer and every signed offset (dx, dy) the grid of cells
\* has the size of the terminal in pixels (its width in columns, half its
\* height in lines), the sample at (x, y) is the buffer's pixel at
\* (x + dx, y + dy) where the buffer has one and the zero pixel elsewhere, and
\* no offset makes the draw fail.
C30_GridIsOffsetCropOfBuffer ==
    last_draw.made =>
        LET dx == last_draw.offset[1]
            dy == last_draw.offset[2]
        IN  /\ last_draw.result = "Ok" \/ FailedForTerminal
            /\ 2 * Len(last_draw.cells) = size(term_size)[2]
            /\ \A k \in 1..Len(last_draw.cells) :
                /\ Len(last_draw.cells[k]) = size(term_size)[1]
                /\ \A c \in 1..Len(last_draw.cells[k]) :
                    /\ last_draw.cells[k][c].top =
                            ColorAt(last_draw.pixel_grid, c - 1 + dx,
                                    2 * (k - 1) + dy)
                    /\ last_draw.cells[k][c].bottom =
                            ColorAt(last_draw.pixel_grid, c - 1 + dx,
                                    2 * (k - 1) + 1 + dy)

\* A buffer of 2 x 3 pixels drawn one pixel to the right and one pixel up:
\* the first cell has nothing above the buffer as its upper half and the
\* second pixel of the buffer's first row as its lower half.
C30_PannedRightAndUp ==
    /\ last_draw.made
    /\ last_draw.result = "Ok"
    /\ last_draw.offset = <<1, -1>>
    /\ Len(last_draw.pixel_grid) = 3
    /\ size(term_size) = <<2, 4>>
    /\ last_draw.cells[1][1].top = to_color(PixelZero)
    /\ last_draw.cells[1][1].bottom = to_color(last_draw.pixel_grid[1][2])
    /\ last_draw.cells[1][1].bottom /= to_color(PixelZero)
    /\ last_draw.cells[1][2].bottom = to_color(PixelZero)

-----------------------------------------------------------------------------
\* DetectSpec: kitty_graphics_supported, the query for the bitmap protocol
\* and the loop that waits for the terminal's reply. Here the variable
\* terminal holds the locals of the function and the bytes of its buffer.

\* The loop gives up once this much time has passed (milliseconds).
DETECT_TIMEOUT_MS == 100

\* The longest a single poll waits (milliseconds).
POLL_TIMEOUT_MS == 10

\* Length of buf, in tokens of the reply.
BufLen == 4

\* What stdin can deliver: the two halves of the nonce "i=31", the string
\* terminator ESC \, and a byte that is not UTF-8.
ReplyTokens == {"i=", "31", "ST", "bad"}

\* String::from_utf8_lossy: a byte that is not UTF-8 becomes U+FFFD.
from_utf8_lossy(bytes) ==
    [k \in 1..Len(bytes) |-> IF bytes[k] = "bad" THEN "U+FFFD" ELSE bytes[k]]

contains_only_nonce_start(s) ==
    \E k \in 1..Len(s) : s[k] = "i="

\* s.contains("i=31")
contains_nonce(s) ==
    \E k \in 1..(Len(s) - 1) : s[k] = "i=" /\ s[k + 1] = "31"

\* s.ends_with("\x1b\\")
ends_with_terminator(s) ==
    Len(s) > 0 /\ s[Len(s)] = "ST"

\* The locals when kitty_graphics_supported is entered.
DetectStart ==
    [at |-> "query", query_sent |-> FALSE, buf |-> <<>>, elapsed |-> 0,
     read_at |-> 0, detected |-> FALSE, last_read |-> "none",
     result |-> "None"]

\* The arm Ok(n) if n > 0 of the read: the bytes join the buffer, and the
\* whole buffer read so far is searched.
read_some(self, bytes, began, waited) ==
    LET buf == self.buf \o bytes
        s == from_utf8_lossy(buf)
        found == contains_nonce(s)
        stop == found \/ ends_with_terminator(s)
    IN  [self EXCEPT !.buf = buf,
                     !.elapsed = began + waited,
                     !.read_at = began,
                     !.last_read = "data",
                     !.detected = found,
                     !.at = IF stop THEN "returned" ELSE "loop",
                     !.result = IF ~stop THEN "None"
                                 ELSE IF found THEN "true" ELSE "false"]

DetectOthers ==
    <<taskVars, windowVars, pc, config, channel, sent, handled, polls,
      should_run, show_semantics, viewport, semantics_tree, logs, exit_code,
      last_event>>

DetectInit ==
    /\ WindowIdle
    /\ TaskIdle
    /\ pc = "start"
    /\ config = [simple_output |-> FALSE, alternate_screen |-> TRUE]
    /\ terminal = DetectStart
    /\ channel = <<>>
    /\ sent = 0
    /\ handled = <<>>
    /\ polls = 0
    /\ should_run = TRUE
    /\ show_semantics = FALSE
    /\ viewport = NewViewport
    /\ semantics_tree = NewSemanticsTree
    /\ logs = <<>>
    /\ exit_code = -1
    /\ last_event = NoEvent

\* The query is printed and flushed; whether either write fails is ignored.
SendQuery ==
    /\ terminal.at = "query"
    /\ \E io_ok \in BOOLEAN :
        terminal' = [terminal EXCEPT !.at = "loop", !.query_sent = io_ok]
    /\ UNCHANGED DetectOthers

\* The top of the loop finds the time over.
TimedOut ==
    /\ terminal.at = "loop"
    /\ terminal.elapsed > DETECT_TIMEOUT_MS
    /\ terminal' = [terminal EXCEPT !.at = "returned",
                                    !.result = IF terminal.detected THEN "true"
                                                ELSE "false"]
    /\ UNCHANGED DetectOthers

\* poll returns with nothing to read, after its wait.
PollIdle ==
    /\ terminal.at = "loop"
    /\ terminal.elapsed <= DETECT_TIMEOUT_MS
    /\ terminal' = [terminal EXCEPT !.elapsed = @ + POLL_TIMEOUT_MS]
    /\ UNCHANGED DetectOthers

\* poll says stdin is readable and read delivers bytes into the free part of
\* the buffer.
ReadSome ==
    /\ terminal.at = "loop"
    /\ terminal.elapsed <= DETECT_TIMEOUT_MS
    /\ \E n \in 1..2, waited \in {0, POLL_TIMEOUT_MS} :
        /\ Len(terminal.buf) + n <= BufLen
        /\ \E bytes \in [1..n -> ReplyTokens] :
            terminal' = read_some(terminal, bytes, terminal.elapsed, waited)
    /\ UNCHANGED DetectOthers

\* poll says stdin is readable and read fails or delivers nothing (end of
\* input, or no room left in the buffer): the arm _ => break.
ReadNothing ==
    /\ terminal.at = "loop"
    /\ terminal.elapsed <= DETECT_TIMEOUT_MS
    /\ \E how \in {"Err", "Ok(0)"} :
        terminal' = [terminal EXCEPT !.at = "returned",
                                     !.last_read = how,
                                     !.read_at = terminal.elapsed,
                                     !.result = IF terminal.detected THEN "true"
                                                ELSE "false"]
    /\ UNCHANGED DetectOthers

DetectNext ==
    \/ SendQuery
    \/ TimedOut
    \/ PollIdle
    \/ ReadSome
    \/ ReadNothing

DetectSpec == DetectInit /\ [][DetectNext]_vars

\* The function keeps running until it returns.
FairDetectSpec == DetectSpec /\ WF_terminal(DetectNext)

\* The nonce is among the bytes the function has read.
NonceReceived ==
    \E k \in 1..(Len(terminal.buf) - 1) :
        terminal.buf[k] = "i=" /\ terminal.buf[k + 1] = "31"

DetectReturned == terminal.at = "returned"

\* C31: detection always returns; it returns true only if the bytes read in
\* iterations begun within the timeout hold the nonce, and it returns false,
\* never an error, when nothing was read, when the bytes read end with the
\* string terminator and hold no nonce, and when a read failed.
C31_DetectionReturnsAndNeedsNonce ==
    /\ <>DetectReturned
    /\ [](DetectReturned =>
            /\ terminal.result \in {"true", "false"}
            /\ terminal.result = "true" =>
                    NonceReceived /\ terminal.read_at <= DETECT_TIMEOUT_MS
            /\ Len(terminal.buf) = 0 => terminal.result = "false"
            /\ terminal.last_read \in {"Err", "Ok(0)"} =>
                    terminal.result = "false"
            /\ (~NonceReceived /\ terminal.buf /= <<>>
                    /\ terminal.buf[Len(terminal.buf)] = "ST") =>
                    terminal.result = "false")

\* The nonce arrived in two reads, the second at the last moment, and the
\* function returned true.
C31_NonceSplitOverTwoReads ==
    /\ DetectReturned
    /\ terminal.result = "true"
    /\ terminal.buf = <<"bad", "i=", "31">>
    /\ terminal.read_at = DETECT_TIMEOUT_MS

-----------------------------------------------------------------------------
\* KittySpec: TerminalWindow::draw_kitty, the inline bitmap path, on
\* terminals of several sizes. The payload is kept by its length and a chunk
\* by the range of payload bytes it holds.

\* Pixels per cell when the terminal does not tell its size in pixels.
KITTY_PIXELS_PER_COL == 10

KITTY_PIXELS_PER_ROW == 20

\* encoded.as_bytes().chunks(4096)
KITTY_CHUNK_SIZE == 4096

\* Largest terminal drawn to, in columns and in rows.
MaxKittyCols == 12

MaxKittyRows == 12

\* TerminalWindow::size in kitty mode.
kitty_size(term) ==
    <<term.cols * KITTY_PIXELS_PER_COL,
      (term.rows - LOGGING_WINDOW_HEIGHT) * KITTY_PIXELS_PER_ROW>>

\* Length of rgba_bytes: four bytes for every pixel of the window, whether
\* it lies inside the buffer or not.
rgba_len(term) == kitty_size(term)[1] * kitty_size(term)[2] * 4

\* Length of BASE64_STANDARD.encode(bytes): four characters for every three
\* bytes, the last group padded.
base64_len(byte_count) == 4 * ((byte_count + 2) \div 3)

chunks_exact(length, chunk_size) ==
    [i \in 1..(length \div chunk_size) |->
        [from |-> (i - 1) * chunk_size + 1, to |-> i * chunk_size]]

\* slice::chunks: consecutive ranges of chunk_size bytes, the last one
\* shorter when the length is no multiple of chunk_size.
chunks(length, chunk_size) ==
    [i \in 1..((length + chunk_size - 1) \div chunk_size) |->
        [from |-> (i - 1) * chunk_size + 1,
         to |-> IF i * chunk_size < length THEN i * chunk_size ELSE length]]

\* The graphics commands of one frame: the first carries the keys of the
\* header, the others only i=1, each its m and its chunk of the payload.
kitty_commands(encoded_len) ==
    LET all == chunks(encoded_len, KITTY_CHUNK_SIZE)
        chunk_count == Len(all)
    IN  [i \in 1..chunk_count |->
            [header |-> i = 1,
             m |-> IF i = chunk_count THEN 0 ELSE 1,
             from |-> all[i].from,
             to |-> all[i].to]]

\* TerminalWindow::draw_kitty: the commands written, all of them unless a
\* write fails.
draw_kitty(term, io_ok) ==
    LET encoded_len == base64_len(rgba_len(term))
    IN  IF io_ok
        THEN [result |-> "Ok", encoded_len |-> encoded_len,
              commands |-> kitty_commands(encoded_len)]
        ELSE [result |-> "Err", encoded_len |-> encoded_len,
              commands |-> <<>>]

KittySizes ==
    [cols : 1..MaxKittyCols, rows : LOGGING_WINDOW_HEIGHT..MaxKittyRows]

KittyInit ==
    /\ term_size \in KittySizes
    /\ lines = <<>>
    /\ semantics = EmptySemantics
    /\ showing_help = FALSE
    /\ last_draw = [made |-> FALSE, tick |-> 0, result |-> "None",
                    encoded_len |-> 0, commands |-> <<>>]
    /\ frame_hist = NoFrame
    /\ TaskIdle
    /\ LoopIdle

\* A frame is drawn; last_draw keeps the commands written.
DrawKitty ==
    \E io_ok \in BOOLEAN :
        LET d == draw_kitty(term_size, io_ok)
        IN  /\ last_draw' = [made |-> TRUE, tick |-> 1 - last_draw.tick,
                             result |-> d.result,
                             encoded_len |-> d.encoded_len,
                             commands |-> d.commands]
            /\ UNCHANGED <<term_size, lines, semantics, showing_help,
                           frame_hist>>
            /\ UNCHANGED <<taskVars, loopVars>>

KittySpec == KittyInit /\ [][DrawKitty]_vars

\* C32: the commands of a frame drawn in the inline bitmap path hold chunks
\* of at most 4096 bytes that follow one another and together are the whole
\* payload; the first command alone carries the header, every command but
\* the last has m=1 and the last has m=0.
C32_PayloadChunkedInOrder ==
    (last_draw.made /\ last_draw.result = "Ok") =>
        LET commands == last_draw.commands
            n == Len(commands)
        IN  /\ (n = 0) = (last_draw.encoded_len = 0)
            /\ n > 0 => /\ commands[1].from = 1
                        /\ commands[n].to = last_draw.encoded_len
            /\ \A i \in 1..n :
                /\ commands[i].to - commands[i].from + 1
                        \in 1..KITTY_CHUNK_SIZE
                /\ i < n => commands[i + 1].from = commands[i].to + 1
                /\ commands[i].header = (i = 1)
                /\ commands[i].m = (IF i = n THEN 0 ELSE 1)

\* A frame of three commands, the last with a chunk shorter than the others.
C32_ThreeChunksLastShorter ==
    /\ last_draw.made
    /\ last_draw.result = "Ok"
    /\ Len(last_draw.commands) = 3
    /\ last_draw.commands[2].to - last_draw.commands[2].from + 1
            = KITTY_CHUNK_SIZE
    /\ last_draw.commands[3].to - last_draw.commands[3].from + 1
            < KITTY_CHUNK_SIZE
    /\ last_draw.commands[3].m = 0

-----------------------------------------------------------------------------
\* C33: the zoom of the viewport stays at or above a fixed positive floor
\* whatever input events are handled. zoom is kept as an exponent of
\* ZOOM_FACTOR, so a floor is an exponent the zoom never goes below; the
\* floor tried is the lowest exponent but one that the model admits.
C33_ZoomStaysAboveFloor ==
    viewport.zoom > 0 - MaxZoom

\* What the handler does instead: every scroll-down with Control divides the
\* zoom by ZOOM_FACTOR once more, at whatever zoom it finds.
ScrollDownLowersZoomEverywhere ==
    [][(Handles("TerminalEvent")
            /\ IsControlMouse(last_event'.event, "ScrollDown")) =>
        viewport'.zoom = viewport.zoom - 1]_vars

-----------------------------------------------------------------------------
\* C34: when the loop handles a frame, and so issues the window-metrics event
\* and draws, the dimensions of the viewport are the size the renderer takes
\* from the terminal for that frame.
C34_DimensionsAreTerminalSizeAtDraw ==
    [][(Len(handled') = Len(handled) + 1
            /\ handled'[Len(handled')].kind = "Draw") =>
        viewport.dimensions = size(term_size)]_vars

\* A resize event sent and not yet received.
ResizePending ==
    \E i \in 1..Len(channel) :
        /\ channel[i].kind = "TerminalEvent"
        /\ channel[i].payload.type = "Resize"

\* The dimensions differ from the size of the terminal only while a resize
\* event waits in the channel.
DimensionsStaleOnlyWhileResizePending ==
    (pc \in {"recv", "poll"} /\ ~ResizePending) =>
        viewport.dimensions = size(term_size)

-----------------------------------------------------------------------------
\* The step before this one handled the Ctrl+z that turned the overlay off.
OverlayJustDisabled ==
    /\ last_event.made
    /\ IsControlKey(last_event.event, "z")
    /\ last_event.result = "Ok"
    /\ ~show_semantics

\* C35: while the overlay flag is off the label positions of the window are
\* empty, also when the loop receives, right after the Ctrl+z that turned the
\* overlay off, an UpdateSemantics event that an engine thread had sent
\* before the engine was told.
C35_NoLabelsWhileOverlayOff ==
    [][(OverlayJustDisabled /\ Handles("UpdateSemantics")) =>
        (~show_semantics' /\ semantics' = EmptySemantics)]_vars

-----------------------------------------------------------------------------
\* ScreenSpec: the half-block renderer together with the screen it writes
\* to. Here the variable terminal holds what every cell above the logging
\* window shows: nothing yet, a half-block glyph in two colors, or one
\* character of a label.

Blank == [kind |-> "blank"]

Glyph(cell) == [kind |-> "glyph", top |-> cell.top, bottom |-> cell.bottom]

Character(label, index) == [kind |-> "text", label |-> label, index |-> index]

\* The columns of line y (from 0) at which the second pass prints a label
\* that reaches the column x: Print writes the characters of the label from
\* its cell to the right.
labels_reaching(new_lines, x, y) ==
    {x0 \in 0..x :
        /\ new_lines[y + 1][x0 + 1].semantics /= None
        /\ x0 + Len(new_lines[y + 1][x0 + 1].semantics[1]) > x}

\* The label printed last of those that reach the column x: the second pass
\* goes through the line from left to right.
last_label_reaching(new_lines, x, y) ==
    CHOOSE x0 \in labels_reaching(new_lines, x, y) :
        \A other \in labels_reaching(new_lines, x, y) : other <= x0

\* The screen after the two passes of a draw over every line: a cell that a
\* label reaches shows the label's character, a cell the first pass wrote
\* shows its glyph, and any other cell shows what it showed before.
screen_after(screen, new_lines, written) ==
    [at \in DOMAIN screen |->
        IF at[2] >= Len(new_lines) \/ at[1] >= Len(new_lines[at[2] + 1])
        THEN screen[at]
        ELSE IF labels_reaching(new_lines, at[1], at[2]) /= {}
        THEN LET x0 == last_label_reaching(new_lines, at[1], at[2])
             IN  Character(new_lines[at[2] + 1][x0 + 1].semantics[1],
                           at[1] - x0 + 1)
        ELSE IF at \in written
        THEN Glyph(new_lines[at[2] + 1][at[1] + 1])
        ELSE screen[at]]

\* A terminal as wide as the status hint, with one line of cells.
ScreenSize == [cols |-> hint_and_fps_len, rows |-> LOGGING_WINDOW_HEIGHT + 1]

ScreenCells == (0..(ScreenSize.cols - 1)) \X {0}

ScreenBuffers ==
    {[y \in 1..2 |-> [x \in 1..2 |-> p]] : p \in {PixelWhite, PixelBlack}}
    \cup {<<<<PixelWhite, PixelBlack>>, <<PixelWhite, PixelBlack>>>>}

\* A label of two characters, a label of one character in its place, and a
\* label next to it.
ScreenLabels ==
    {<<>>, << << <<0, 0>>, "bb" >> >>, << << <<0, 0>>, "a" >> >>,
     << << <<1, 1>>, "a" >> >>}

ScreenOthers ==
    <<taskVars, pc, config, channel, sent, handled, polls, should_run,
      show_semantics, viewport, semantics_tree, logs, exit_code, last_event>>

ScreenInit ==
    /\ term_size = ScreenSize
    /\ lines = <<>>
    /\ semantics = EmptySemantics
    /\ showing_help = FALSE
    /\ last_draw = [made |-> FALSE, tick |-> 0, result |-> "None",
                    cells |-> <<>>]
    /\ frame_hist = NoFrame
    /\ TaskIdle
    /\ pc = "recv"
    /\ config = [simple_output |-> FALSE, alternate_screen |-> TRUE]
    /\ terminal = [screen |-> [at \in ScreenCells |-> Blank]]
    /\ channel = <<>>
    /\ sent = 0
    /\ handled = <<>>
    /\ polls = 0
    /\ should_run = TRUE
    /\ show_semantics = TRUE
    /\ viewport = NewViewport
    /\ semantics_tree = NewSemanticsTree
    /\ logs = <<>>
    /\ exit_code = -1
    /\ last_event = NoEvent

\* TerminalWindow::draw of a frame, every write of which succeeds.
DrawOnScreen ==
    \E pixel_grid \in ScreenBuffers, overflow_checks \in BOOLEAN :
        LET d == draw(lines, semantics, FALSE, showing_help, pixel_grid,
                      <<0, 0>>, term_size, TRUE, overflow_checks)
        IN  /\ lines' = d.lines
            /\ terminal' = [screen |-> screen_after(terminal.screen, d.cells,
                                                    d.written)]
            /\ last_draw' = [made |-> TRUE, tick |-> 1 - last_draw.tick,
                             result |-> d.result, cells |-> d.cells]
            /\ UNCHANGED <<term_size, semantics, showing_help, frame_hist>>
            /\ UNCHANGED ScreenOthers

\* The loop receives UpdateSemantics: TerminalWindow::update_semantics.
LabelsOnScreen ==
    \E label_positions \in ScreenLabels :
        /\ semantics' = update_semantics(label_positions)
        /\ last_draw' = [last_draw EXCEPT !.made = FALSE]
        /\ UNCHANGED <<term_size, lines, showing_help, frame_hist, terminal>>
        /\ UNCHANGED ScreenOthers

ScreenNext ==
    \/ DrawOnScreen
    \/ LabelsOnScreen

ScreenSpec == ScreenInit /\ [][ScreenNext]_vars

\* What the screen shows when every cell shows the frame: the character of
\* the label that covers the cell, or else the glyph of the cell.
ShownByFrame(cells) ==
    [at \in ScreenCells |->
        IF labels_reaching(cells, at[1], at[2]) /= {}
        THEN LET x0 == last_label_reaching(cells, at[1], at[2])
             IN  Character(cells[at[2] + 1][x0 + 1].semantics[1],
                           at[1] - x0 + 1)
        ELSE Glyph(cells[at[2] + 1][at[1] + 1])]

\* C36: after a successful half-block draw every cell of the screen shows the
\* frame just drawn: the character of a label of that frame where one covers
\* the cell, and the glyph of the cell's packed colors elsewhere.
C36_ScreenShowsLatestFrame ==
    (last_draw.made /\ last_draw.result = "Ok") =>
        terminal.screen = ShownByFrame(last_draw.cells)

\* With an empty frame cache the draw repaints every cell, and the screen
\* shows the frame.
ScreenShowsFrameDrawnOnEmptyCache ==
    [][(last_draw'.made /\ last_draw'.tick /= last_draw.tick
            /\ last_draw'.result = "Ok" /\ lines = <<>>) =>
        terminal'.screen = ShownByFrame(last_draw'.cells)]_vars

-----------------------------------------------------------------------------
\* The step handles an event whose handler calls mark_dirty: a resize,
\* Ctrl+r, the key '?', or Ctrl+z while the overlay is on.
MarksFrameCacheDirty ==
    /\ Handles("TerminalEvent")
    /\ \/ last_event'.event.payload.type = "Resize"
       \/ IsControlKey(last_event'.event, "r")
       \/ /\ last_event'.event.payload.type = "Key"
          /\ last_event'.event.payload.modifiers /= CONTROL_KEY
          /\ last_event'.event.payload.code = "?"
       \/ IsControlKey(last_event'.event, "z") /\ show_semantics

\* C37: a handler that marks the frame cache dirty calls schedule_frame in
\* the same step.
C37_DirtyCacheRequestsFrame ==
    [][MarksFrameCacheDirty =>
        \E i \in DOMAIN last_event'.calls :
            last_event'.calls[i].call = "schedule_frame"]_vars

\* The resize and the reset do request a frame.
ResizeAndResetRequestFrame ==
    [][(MarksFrameCacheDirty
            /\ \/ last_event'.event.payload.type = "Resize"
               \/ IsControlKey(last_event'.event, "r")) =>
        \E i \in DOMAIN last_event'.calls :
            last_event'.calls[i].call = "schedule_frame"]_vars

-----------------------------------------------------------------------------
\* HelpSpec: the help screen and the renderer. The key '?' toggles the help
\* screen and frames arrive while it shows and while it does not; an error of
\* the toggle or of a draw returns from run_event_loop, a panic unwinds, and
\* either ends the program.

HelpOthers ==
    <<taskVars, config, terminal, channel, sent, handled, polls, should_run,
      show_semantics, viewport, semantics_tree, logs, exit_code, last_event>>

HelpInit ==
    /\ term_size \in TermSizes
    /\ lines = <<>>
    /\ semantics \in {EmptySemantics, update_semantics(<< << <<0, 0>>, "a" >> >>)}
    /\ showing_help = FALSE
    /\ last_draw = [NoDraw EXCEPT !.prev = [dismissed |-> FALSE]]
    /\ frame_hist = [have |-> FALSE, cells |-> <<>>, dismissed |-> FALSE]
    /\ TaskIdle
    /\ pc = "recv"
    /\ config = [simple_output |-> FALSE, alternate_screen |-> TRUE]
    /\ terminal = TerminalAtStart
    /\ channel = <<>>
    /\ sent = 0
    /\ handled = <<>>
    /\ polls = 0
    /\ should_run = TRUE
    /\ show_semantics = FALSE
    /\ viewport = NewViewport
    /\ semantics_tree = NewSemanticsTree
    /\ logs = <<>>
    /\ exit_code = -1
    /\ last_event = NoEvent

\* The loop receives the key '?': TerminalWindow::toggle_show_help.
HelpKey ==
    \E io \in {"ok", "fail_clear", "fail_print"} :
        /\ pc = "recv"
        /\ io = "fail_print" => ~showing_help
        /\ LET t == toggle_show_help(lines, showing_help, io) IN
            /\ showing_help' = t.showing_help
            /\ lines' = t.lines
            /\ pc' = IF t.result = "Ok" THEN "recv" ELSE "exited"
            /\ frame_hist' = [frame_hist EXCEPT
                                 !.dismissed = @ \/ ~t.showing_help]
        /\ last_draw' = [NoDraw EXCEPT !.prev = [dismissed |-> FALSE]]
        /\ UNCHANGED <<term_size, semantics>>
        /\ UNCHANGED HelpOthers

\* The loop receives a frame: TerminalWindow::draw.
HelpFrame ==
    \E pixel_grid \in Buffers,
       outcome \in {"ok", "io_fails", "overflow_checked"} :
        LET d == draw(lines, semantics, FALSE, showing_help, pixel_grid,
                      <<0, 0>>, term_size, outcome /= "io_fails",
                      outcome = "overflow_checked")
        IN  /\ pc = "recv"
            /\ lines' = d.lines
            /\ pc' = IF d.result = "Ok" THEN "recv" ELSE "exited"
            /\ last_draw' = [made |-> TRUE, tick |-> 1 - last_draw.tick,
                             result |-> d.result, drawn |-> d.drawn,
                             written |-> d.written, labelled |-> d.labelled,
                             prev |-> [dismissed |-> frame_hist.dismissed]]
            /\ frame_hist' = IF d.drawn
                             THEN [have |-> TRUE, cells |-> d.cells,
                                   dismissed |-> FALSE]
                             ELSE frame_hist
            /\ UNCHANGED <<term_size, semantics, showing_help>>
            /\ UNCHANGED HelpOthers

HelpNext ==
    \/ HelpKey
    \/ HelpFrame

HelpSpec == HelpInit /\ [][HelpNext]_vars

\* A step that is a call of draw.
DrawCalled == last_draw'.made /\ last_draw'.tick /= last_draw.tick

\* C38: while the help screen shows, a draw writes no cell and leaves the
\* frame cache as it was; a toggle of the help screen leaves the cache empty
\* whenever the loop goes on after it; and the first frame drawn after the
\* help screen was dismissed writes every cell.
C38_HelpHidesFramesAndInvalidatesCache ==
    [][/\ (DrawCalled /\ showing_help) =>
            /\ last_draw'.written = {} /\ last_draw'.labelled = {}
            /\ ~last_draw'.drawn
            /\ lines' = lines
       /\ (showing_help' /= showing_help) =>
            (lines' = <<>> \/ pc' = "exited")
       /\ (DrawCalled /\ last_draw'.drawn /\ frame_hist.dismissed) =>
            last_draw'.written = AllCells(frame_hist'.cells)]_vars

\* The help screen was dismissed, and the first frame drawn afterwards wrote
\* every one of its cells and printed a label.
C38_SameFrameRepaintedAfterHelp ==
    /\ last_draw.made /\ last_draw.drawn
    /\ last_draw.prev.dismissed
    /\ last_draw.written = AllCells(frame_hist.cells)
    /\ last_draw.written /= {}
    /\ last_draw.labelled /= {}

-----------------------------------------------------------------------------
\* LogSpec: the logging window. Messages are logged, by the LogMessage arm of
\* the loop and by handle_terminal_event when events are logged, and frames
\* are drawn in between; here handled keeps every message ever logged.

\* Messages logged in one run.
MaxLogged == 6

LogMessages == {"a", "b"}

\* assert!(self.logs.len() <= LOGGING_WINDOW_HEIGHT) in draw.
logs_fit_window(window_logs) == Len(window_logs) <= LOGGING_WINDOW_HEIGHT

LogInit ==
    /\ WindowIdle
    /\ TaskIdle
    /\ LoopIdle

\* TerminalWindow::log is called with a message.
LogCalled ==
    \E message \in LogMessages :
        /\ WindowAlive
        /\ Len(handled) < MaxLogged
        /\ logs' = log(logs, message)
        /\ handled' = Append(handled, message)
        /\ UNCHANGED <<taskVars, windowVars>>
        /\ UNCHANGED <<pc, config, terminal, channel, sent, polls, should_run,
                       show_semantics, viewport, semantics_tree, exit_code,
                       last_event>>

\* TerminalWindow::draw reaches the logging window: the assertion on the
\* length of the log, then one line of the window for each message.
LogWindowDrawn ==
    /\ WindowAlive
    /\ last_draw' = [made |-> TRUE, tick |-> 1 - last_draw.tick,
                     result |-> IF logs_fit_window(logs) THEN "Ok" ELSE "Panic",
                     shown |-> logs]
    /\ UNCHANGED <<term_size, lines, semantics, showing_help, frame_hist>>
    /\ UNCHANGED <<taskVars, loopVars>>

LogNext ==
    \/ LogCalled
    \/ LogWindowDrawn

LogSpec == LogInit /\ [][LogNext]_vars

\* The last n elements of a sequence, all of it when it is shorter.
LastOf(seq, n) ==
    IF Len(seq) <= n THEN seq ELSE SubSeq(seq, Len(seq) - n + 1, Len(seq))

\* C39: after any sequence of log calls the log holds at most
\* LOGGING_WINDOW_HEIGHT messages, the most recent ones in the order they
\* arrived, and the assertion on its length in draw does not fail.
C39_LogHoldsMostRecentMessages ==
    /\ Len(logs) <= LOGGING_WINDOW_HEIGHT
    /\ logs = LastOf(handled, LOGGING_WINDOW_HEIGHT)
    /\ last_draw.result /= "Panic"

\* Six messages were logged and the window, drawn afterwards, shows the last
\* four of them.
C39_OldestMessagesDropped ==
    /\ handled = <<"a", "a", "b", "a", "b", "b">>
    /\ logs = <<"b", "a", "b", "b">>
    /\ last_draw.made /\ last_draw.result = "Ok"
    /\ last_draw.shown = logs

-----------------------------------------------------------------------------
\* C40: on a terminal of any size the unsigned subtractions of a draw do not
\* underflow: the rows of the terminal are no fewer than the rows of the
\* logging window that size takes off them, the pixel width is no less than
\* the length of the status hint that the status line takes off it, and no
\* draw panics on them.
C40_SubtractionsNeverUnderflow ==
    last_draw.made =>
        /\ term_size.rows >= LOGGING_WINDOW_HEIGHT
        /\ size(term_size)[1] >= hint_and_fps_len
        /\ last_draw.result /= "Panic"

\* On a terminal as wide as the hint or wider, and of four rows or more, no
\* draw panics.
WideTerminalDrawsWithoutPanic ==
    (last_draw.made /\ size(term_size)[1] >= hint_and_fps_len) =>
        last_draw.result = "Ok"

====
